---------------------------- MODULE Spec2Model ----------------------------
(***************************************************************************)
(* A model of the feed simulator's event-production engine (go-feed):      *)
(* the PRNG, the order book, the order-flow simulator, the id counters,    *)
(* the session layer's send queues and fan-out, and the trade channel.     *)
(*                                                                         *)
(* Representation.  Prices are integers in price units; a symbol's tick    *)
(* size is a number of units, so that snapPrice rounds.  A Go *Order is     *)
(* identified by its ID (every order gets its ID from NextOrderID or from  *)
(* a snapshot of one book, so IDs are unique per book); a mutation through *)
(* the pointer updates the id index and the level entry together.  64-bit  *)
(* words of the generator are sequences of 8 bytes, least significant      *)
(* first, and a uint32 is a record of two 16-bit halves, because the model *)
(* checker's integers are 32 bits wide.                                    *)
(***************************************************************************)
EXTENDS Integers, Sequences, FiniteSets, TLC

VARIABLES
    rng,             \* engine.RNG of the simulator
    book,            \* orderbook.Book: [Bids, Asks, orderMap]
    orderIDCounter,  \* orderbook.orderIDCounter (global)
    matchCounter,    \* orderbook.matchCounter (global)
    msgs,            \* the message list returned by the last Initialize/Step
    audit,           \* per executed/trade pair of msgs: the book's view of its order
    last,            \* the last operation applied, its arguments and its result
    steps,           \* number of operations applied so far (bounded)
    run2,            \* a second run of the simulator: its world
    clients,         \* session.Manager.clients and the Client objects
    bcast,           \* per symbol task: its Broadcast call in progress
    emitted,         \* per symbol: number of messages its Step calls produced
    taken,           \* per client: the frames its writePump wrote (item and frame type)
    ctl,             \* per client: the handleControl call of its readPump
    tradeCh,         \* main's trade channel
    enq,             \* per symbol task: its enqueueTrades call in progress
    saved,           \* the records the tradeWriter tasks received
    callers,         \* per task: its call of NextOrderID / NextMatchNumber
    calls,           \* the completed and pending counter calls, in invocation order
    pumps,           \* per client: its connection and its readPump and writePump
    ctx,             \* main's context: has cancel() been called
    tasks,           \* per goroutine of main: where it is
    store,           \* persist.Store: is it connected; the final snapshot Saves
    market,          \* a run of the symbol tasks on the price engine and their simulators
    consumer         \* a consumer's orders, rebuilt from the messages of Initialize and Step

simVars   == <<rng, book, orderIDCounter, matchCounter, msgs, audit, last, steps>>
sessVars  == <<clients, bcast, emitted, taken, ctl>>
tradeVars == <<tradeCh, enq, saved>>
ctrVars   == <<callers, calls>>
shutVars  == <<ctx, tasks, store>>
lifeVars  == <<pumps, shutVars, market, consumer>>
vars == <<simVars, run2, sessVars, tradeVars, ctrVars, lifeVars>>

\* the parts of the program a specification leaves out stay as they are
SimAtRest ==
    /\ rng = <<>> /\ book = <<>> /\ orderIDCounter = 0 /\ matchCounter = 0
    /\ msgs = <<>> /\ audit = <<>> /\ last = <<>> /\ steps = 0
SessAtRest  == clients = <<>> /\ bcast = <<>> /\ emitted = <<>> /\ taken = <<>> /\ ctl = <<>>
TradeAtRest == tradeCh = <<>> /\ enq = <<>> /\ saved = <<>>
CtrAtRest   == callers = <<>> /\ calls = <<>>
ShutAtRest  == ctx = FALSE /\ tasks = <<>> /\ store = <<>>
MktAtRest   == market = <<>>
ConsumerAtRest == consumer = <<>>
LifeAtRest  == pumps = <<>> /\ ShutAtRest /\ MktAtRest /\ ConsumerAtRest
DetAtRest   == run2 = <<>>
OnlySim     == UNCHANGED <<run2, sessVars, tradeVars, ctrVars, lifeVars>>

-----------------------------------------------------------------------------
(* engine.RNG: PCG-XSH-RR over a 64-bit state                              *)

\* F(e), with e evaluated once
With(e, F(_)) == CHOOSE y \in {F(x) : x \in {e}} : TRUE

\* 6364136223846793005 = 0x5851F42D4C957F2D, least significant byte first
PCGMultiplier == <<45, 127, 149, 76, 45, 244, 81, 88>>

Pow2(n) == IF n = 0 THEN 1 ELSE IF n = 1 THEN 2 ELSE IF n = 2 THEN 4
           ELSE IF n = 3 THEN 8 ELSE IF n = 4 THEN 16 ELSE IF n = 5 THEN 32
           ELSE IF n = 6 THEN 64 ELSE IF n = 7 THEN 128 ELSE IF n = 8 THEN 256
           ELSE IF n = 9 THEN 512 ELSE IF n = 10 THEN 1024 ELSE IF n = 11 THEN 2048
           ELSE IF n = 12 THEN 4096 ELSE IF n = 13 THEN 8192
           ELSE IF n = 14 THEN 16384 ELSE 32768

\* uint64(n) for 0 <= n < 2^31, as 8 bytes
Word64(n) == <<n % 256, (n \div 256) % 256, (n \div 65536) % 256,
               (n \div 16777216) % 256, 0, 0, 0, 0>>

RECURSIVE Carry(_, _, _)
\* propagate carries through 8 column sums, dropping the carry out of bit 63
Carry(cols, k, c) ==
    IF k > 8 THEN <<>>
    ELSE <<(cols[k] + c) % 256>> \o Carry(cols, k + 1, (cols[k] + c) \div 256)

RECURSIVE ColumnSum(_, _, _, _)
ColumnSum(a, b, k, i) ==
    IF i > k THEN 0 ELSE a[i] * b[k + 1 - i] + ColumnSum(a, b, k, i + 1)

\* a + b and a * b modulo 2^64
Add64(a, b) ==
    With(<<a, b>>, LAMBDA ab :
       With([k \in 1..8 |-> ab[1][k] + ab[2][k]], LAMBDA cols : Carry(cols, 1, 0)))
Mul64(a, b) ==
    With(<<a, b>>, LAMBDA ab :
       With([k \in 1..8 |-> ColumnSum(ab[1], ab[2], k, 1)], LAMBDA cols : Carry(cols, 1, 0)))

\* bit i (0..63) of a 64-bit word
Bit64(w, i) == IF i > 63 THEN 0 ELSE (w[(i \div 8) + 1] \div Pow2(i % 8)) % 2

\* RNG.step: state = state*6364136223846793005 + inc
step(r) ==
    With(r, LAMBDA rv : [rv EXCEPT !.state = Add64(Mul64(rv.state, PCGMultiplier), rv.inc)])

\* NewRNG(seed) for a non-zero seed (seed 0 takes the clock)
NewRNG(seed) ==
    LET r0 == [state |-> Word64(0), inc |-> Word64(2 * seed + 1),
               hasSpare |-> FALSE, tape |-> <<>>, scripted |-> FALSE]
        r1 == step(r0)
        r2 == [r1 EXCEPT !.state = Add64(r1.state, Word64(seed))]
    IN step(r2)

\* the output permutation of Uint32 applied to the state `old`
PCGOutput(old) ==
    With(<<old, Bit64(old, 59) + 2 * Bit64(old, 60) + 4 * Bit64(old, 61)
                + 8 * Bit64(old, 62) + 16 * Bit64(old, 63)>>, LAMBDA oldRot :
    LET x(j)  == (Bit64(oldRot[1], j + 27) + Bit64(oldRot[1], j + 45)) % 2
              \* bit j of uint32(((old >> 18) ^ old) >> 27)
        rot   == oldRot[2]                   \* uint32(old >> 59)
        out(k) == x((k + rot) % 32)          \* rotate right by rot
        half(b) == out(b) + 2 * out(b + 1) + 4 * out(b + 2) + 8 * out(b + 3)
                 + 16 * out(b + 4) + 32 * out(b + 5) + 64 * out(b + 6)
                 + 128 * out(b + 7) + 256 * out(b + 8) + 512 * out(b + 9)
                 + 1024 * out(b + 10) + 2048 * out(b + 11) + 4096 * out(b + 12)
                 + 8192 * out(b + 13) + 16384 * out(b + 14) + 32768 * out(b + 15)
    IN [hi |-> half(16), lo |-> half(0)])

\* The value the next Uint32 call returns.  A scripted generator hands out the
\* values of its tape: the one generator is shared by every symbol task, the
\* price engine and the stress controller (main), so the values one simulator
\* draws are an arbitrary subsequence of the stream.
Uint32(r) ==
    With(r, LAMBDA rv :
       IF rv.scripted
       THEN IF rv.tape = <<>> THEN [hi |-> 0, lo |-> 0] ELSE Head(rv.tape)
       ELSE PCGOutput(rv.state))

\* the generator after one Uint32 call
AfterUint32(r) ==
    With(r, LAMBDA rv :
       IF rv.scripted
       THEN [rv EXCEPT !.tape = IF rv.tape = <<>> THEN <<>> ELSE Tail(rv.tape)]
       ELSE step(rv))

\* Float64() < num/den, for the Float64 the next call returns:
\* u / 2^32 < num/den  iff  u * den < num * 2^32
Float64Less(r, num, den) ==
    With(Uint32(r), LAMBDA u : u.hi * den + ((u.lo * den) \div 65536) < num * 65536)

\* Intn(n): 0 without a draw when n <= 0, else Uint32() % n
Intn(r, n) ==
    IF n <= 0 THEN 0
    ELSE With(Uint32(r), LAMBDA u : ((u.hi % n) * (65536 % n) + u.lo) % n)
AfterIntn(r, n) == IF n <= 0 THEN r ELSE AfterUint32(r)

\* IntRange(min, max): min without a draw when min >= max
IntRange(r, min, max) == IF min >= max THEN min ELSE min + Intn(r, max - min + 1)
AfterIntRange(r, min, max) == IF min >= max THEN r ELSE AfterIntn(r, max - min + 1)

RECURSIVE SumWeights(_, _)
SumWeights(weights, n) == IF n = 0 THEN 0 ELSE weights[n] + SumWeights(weights, n - 1)

\* WeightedPick(weights): the first index (from 0) whose cumulative weight
\* exceeds Float64() * total; weights are in hundredths
WeightedPick(r, weights) ==
    LET u     == Uint32(r)
        total == SumWeights(weights, Len(weights))
        scaled == u.hi * total + ((u.lo * total) \div 65536)  \* floor(u*total/2^16)
        hit(i) == scaled < SumWeights(weights, i) * 65536
    IN IF \E i \in 1..Len(weights) : hit(i)
       THEN (CHOOSE i \in 1..Len(weights) : hit(i) /\ \A j \in 1..(i - 1) : ~hit(j)) - 1
       ELSE Len(weights) - 1

-----------------------------------------------------------------------------
(* orderbook.Order, the global counters and orderbook.Book                  *)

SideBuy  == "B"
SideSell == "S"

MaxLevels      == 10   \* 10 bid levels, 10 ask levels
OrdersPerLevel == 3    \* initial orders per level

\* the nil *Order
NilOrder == [ID |-> 0, Locate |-> 0, Side |-> "", Price |-> 0, Shares |-> 0,
             Priority |-> 0, MPID |-> ""]

\* NextOrderID / NextMatchNumber: atomic.AddUint64(&counter, 1) returns the new
\* value (the counters stay far below 2^64 here)
\* atomic.AddUint64 on a location that holds current; stale is what the caller
\* saw there when its call began, which the atomic add does not use
AddUint64Racy(current, stale, delta) == stale + delta
AddUint64(current, stale, delta) == current + delta

NextOrderID(counter) == AddUint64(counter, counter, 1)
NextMatchNumber(counter) == AddUint64(counter, counter, 1)

\* NewBook: no levels, empty id index
\* iter stands for the iteration order of the Go map orderMap, which differs
\* from one map to another: 0 visits the ids upwards, 1 downwards
NewBook == [Bids |-> <<>>, Asks |-> <<>>, orderMap |-> [id \in {} |-> NilOrder],
            iter |-> 0]

\* a sort.Slice that leaves the slice as it found it
SortLevelsKeepOrder(levels, descending) == levels

RECURSIVE SortLevels(_, _)
\* sort.Slice by price, descending or ascending (level prices are distinct)
SortLevels(levels, descending) ==
    IF Len(levels) <= 1 THEN levels
    ELSE LET first == CHOOSE i \in 1..Len(levels) : \A j \in 1..Len(levels) :
                          IF descending THEN levels[i].Price >= levels[j].Price
                                        ELSE levels[i].Price <= levels[j].Price
             rest  == [k \in 1..(Len(levels) - 1) |->
                          IF k < first THEN levels[k] ELSE levels[k + 1]]
         IN <<levels[first]>> \o SortLevels(rest, descending)

\* addToSide without its trim to MaxLevels
addToSideUntrimmed(levels, o, descending) ==
    IF \E i \in 1..Len(levels) : levels[i].Price = o.Price
    THEN LET at == CHOOSE i \in 1..Len(levels) :
                      /\ levels[i].Price = o.Price
                      /\ \A j \in 1..(i - 1) : levels[j].Price # o.Price
         IN [levels EXCEPT ![at].Orders = Append(@, o)]
    ELSE SortLevels(Append(levels, [Price |-> o.Price, Orders |-> <<o>>]), descending)

\* addToSide: append to the first level at the order's price, else add a new
\* level, sort, and keep the first MaxLevels levels
addToSide(levels, o, descending) ==
    IF \E i \in 1..Len(levels) : levels[i].Price = o.Price
    THEN LET at == CHOOSE i \in 1..Len(levels) :
                      /\ levels[i].Price = o.Price
                      /\ \A j \in 1..(i - 1) : levels[j].Price # o.Price
         IN [levels EXCEPT ![at].Orders = Append(@, o)]
    ELSE LET sorted == SortLevels(Append(levels, [Price |-> o.Price, Orders |-> <<o>>]),
                                  descending)
         IN IF Len(sorted) > MaxLevels THEN SubSeq(sorted, 1, MaxLevels) ELSE sorted

\* a sequence without its element at position j
RemoveAt(seq, j) == SubSeq(seq, 1, j - 1) \o SubSeq(seq, j + 1, Len(seq))

\* removeFromSide that keeps a level it has emptied
removeFromSideKeepLevel(levels, orderID) ==
    [i \in 1..Len(levels) |->
        [levels[i] EXCEPT !.Orders = SelectSeq(@, LAMBDA o : o.ID # orderID)]]
\* removeFromSide: drop the first entry with this id; drop its level if emptied
removeFromSide(levels, orderID) ==
    LET holds(i) == \E j \in 1..Len(levels[i].Orders) : levels[i].Orders[j].ID = orderID
    IN IF ~\E i \in 1..Len(levels) : holds(i) THEN levels
       ELSE LET i == CHOOSE k \in 1..Len(levels) : holds(k) /\ \A m \in 1..(k - 1) : ~holds(m)
                j == CHOOSE k \in 1..Len(levels[i].Orders) :
                        /\ levels[i].Orders[k].ID = orderID
                        /\ \A m \in 1..(k - 1) : levels[i].Orders[m].ID # orderID
                left == RemoveAt(levels[i].Orders, j)
            IN IF left = <<>> THEN RemoveAt(levels, i)
               ELSE [levels EXCEPT ![i].Orders = left]

\* the id index without one key
MapDelete(m, id) == [k \in (DOMAIN m) \ {id} |-> m[k]]

\* Book.AddOrder (and Book.RestoreOrder, which has the same body)
AddOrder(b, o) ==
    [b EXCEPT !.orderMap = (o.ID :> o) @@ @,
              !.Bids = IF o.Side = SideBuy THEN addToSide(@, o, TRUE) ELSE @,
              !.Asks = IF o.Side = SideBuy THEN @ ELSE addToSide(@, o, FALSE)]
RestoreOrder(b, o) ==
    [b EXCEPT !.orderMap = (o.ID :> o) @@ @,
              !.Bids = IF o.Side = SideBuy THEN addToSide(@, o, TRUE) ELSE @,
              !.Asks = IF o.Side = SideBuy THEN @ ELSE addToSide(@, o, FALSE)]

\* the book without this id in the index and on the levels of the order's side
Unlist(b, o) ==
    [b EXCEPT !.orderMap = MapDelete(@, o.ID),
              !.Bids = IF o.Side = SideBuy THEN removeFromSide(@, o.ID) ELSE @,
              !.Asks = IF o.Side = SideBuy THEN @ ELSE removeFromSide(@, o.ID)]

\* Book.RemoveOrder: the book after the call and the *Order returned
RemoveOrder(b, orderID) ==
    IF orderID \notin DOMAIN b.orderMap THEN [book |-> b, result |-> NilOrder]
    ELSE [book |-> Unlist(b, b.orderMap[orderID]), result |-> b.orderMap[orderID]]

\* Book.GetOrder
GetOrder(b, orderID) ==
    IF orderID \in DOMAIN b.orderMap THEN b.orderMap[orderID] ELSE NilOrder

\* the levels after o.Shares is assigned through the pointer
SetShares(levels, orderID, shares) ==
    [i \in 1..Len(levels) |->
        [levels[i] EXCEPT !.Orders = [j \in 1..Len(@) |->
            IF @[j].ID = orderID THEN [@[j] EXCEPT !.Shares = shares] ELSE @[j]]]]

\* Book.ReduceOrder that leaves a spent order where it is
ReduceOrderKeepSpent(b, orderID, reduceBy) ==
    IF orderID \notin DOMAIN b.orderMap THEN [book |-> b, result |-> 0]
    ELSE LET o    == b.orderMap[orderID]
             left == IF o.Shares - reduceBy <= 0 THEN 0 ELSE o.Shares - reduceBy
         IN [book |-> [b EXCEPT !.orderMap[orderID].Shares = left,
                                !.Bids = SetShares(@, orderID, left),
                                !.Asks = SetShares(@, orderID, left)],
             result |-> left]
\* Book.ReduceOrder: the book after the call and the remaining shares returned
ReduceOrder(b, orderID, reduceBy) ==
    IF orderID \notin DOMAIN b.orderMap THEN [book |-> b, result |-> 0]
    ELSE LET o    == b.orderMap[orderID]
             left == o.Shares - reduceBy
         IN IF left <= 0
            THEN [book |-> Unlist(b, o), result |-> 0]
            ELSE [book |-> [b EXCEPT !.orderMap[orderID].Shares = left,
                                     !.Bids = SetShares(@, orderID, left),
                                     !.Asks = SetShares(@, orderID, left)],
                  result |-> left]

\* Book.ReplaceOrder: the book and the order-id counter after the call and the
\* new *Order returned
ReplaceOrder(b, counter, oldID, newPrice, newShares) ==
    IF oldID \notin DOMAIN b.orderMap
    THEN [book |-> b, result |-> NilOrder, orderIDCounter |-> counter]
    ELSE LET old      == b.orderMap[oldID]
             newOrder == [ID |-> NextOrderID(counter), Locate |-> old.Locate,
                          Side |-> old.Side, Price |-> newPrice, Shares |-> newShares,
                          Priority |-> 0, MPID |-> old.MPID]
         IN [book |-> AddOrder(Unlist(b, old), newOrder), result |-> newOrder,
             orderIDCounter |-> NextOrderID(counter)]

RECURSIVE AllLevelOrders(_)
\* the orders of a side in level order, then time order
AllLevelOrders(levels) ==
    IF levels = <<>> THEN <<>> ELSE Head(levels).Orders \o AllLevelOrders(Tail(levels))

\* Book.OrderCount, BidLevels, AskLevels, TotalBidOrders, TotalAskOrders
OrderCount(b)     == Cardinality(DOMAIN b.orderMap)
BidLevels(b)      == Len(b.Bids)
AskLevels(b)      == Len(b.Asks)
TotalBidOrders(b) == Len(AllLevelOrders(b.Bids))
TotalAskOrders(b) == Len(AllLevelOrders(b.Asks))

RECURSIVE Ascending(_)
\* the members of a set of numbers, upwards
Ascending(S) ==
    IF S = {} THEN <<>>
    ELSE LET m == CHOOSE x \in S : \A y \in S : x <= y
         IN <<m>> \o Ascending(S \ {m})

\* Book.AllOrders: the orders of the index in the map's iteration order
AllOrders(b) ==
    LET up  == Ascending(DOMAIN b.orderMap)
        ids == IF b.iter = 0 THEN up ELSE [i \in 1..Len(up) |-> up[Len(up) + 1 - i]]
    IN [i \in 1..Len(ids) |-> b.orderMap[ids[i]]]

\* RandomBidOrder walking the id index instead of the levels
RandomBidOrderFromIndex(b, idx) ==
    LET bids == SelectSeq(AllOrders(b), LAMBDA o : o.Side = SideBuy)
    IN IF idx >= 0 /\ idx < Len(bids) THEN bids[idx + 1] ELSE NilOrder

\* Book.RandomBidOrder / RandomAskOrder: the idx-th order of the side, or nil
RandomBidOrder(b, idx) ==
    IF idx >= 0 /\ idx < TotalBidOrders(b) THEN AllLevelOrders(b.Bids)[idx + 1] ELSE NilOrder
RandomAskOrder(b, idx) ==
    IF idx >= 0 /\ idx < TotalAskOrders(b) THEN AllLevelOrders(b.Asks)[idx + 1] ELSE NilOrder

\* Book.BestBid / BestAsk: 0 on an empty side
BestBid(b) == IF b.Bids = <<>> THEN 0 ELSE b.Bids[1].Price
BestAsk(b) == IF b.Asks = <<>> THEN 0 ELSE b.Asks[1].Price

-----------------------------------------------------------------------------
(* orderbook.Simulator.  A world w holds what a simulator call reads and     *)
(* writes: the simulator's fields (rng, book, locateCode, tickSize), the two *)
(* global counters, the message list being built (msgs), and audit, which    *)
(* records for each executed/trade pair what the book held for the order     *)
(* reference at the moment the pair was appended.                            *)

\* action weights, in hundredths: Add, Cancel, Replace, Trade, Replenish
actionWeights == <<30, 20, 15, 15, 20>>

mpids == <<"GSCO", "MSCO", "JPMS", "CITI", "BARK", "SUSQ", "VIRT", "CITD">>

\* math.Round(p / t) for integers p and t > 0: half away from zero
RoundDiv(p, t) == IF p >= 0 THEN (2 * p + t) \div (2 * t) ELSE -((2 * (-p) + t) \div (2 * t))

\* snapPrice
snapPrice(price, tickSize) == RoundDiv(price, tickSize) * tickSize

\* itch.Message with every field at its zero value
ZeroMsg == [Type |-> "", StockLocate |-> 0, OrderRef |-> 0, OrigOrderRef |-> 0,
            Side |-> "", Shares |-> 0, Price |-> 0, MatchNumber |-> 0, MPID |-> ""]

\* Simulator.makeAddOrderMsg
makeAddOrderMsg(w, o) ==
    [ZeroMsg EXCEPT !.Type = IF o.MPID # "" THEN "F" ELSE "A",
                    !.StockLocate = w.locateCode, !.OrderRef = o.ID, !.Side = o.Side,
                    !.Shares = o.Shares, !.Price = o.Price, !.MPID = o.MPID]

\* the body shared by doAdd and doReplenish: a new order on a random side,
\* 1..maxTicks ticks from the current price, minLots..10 round lots, tagged
\* with probability tagNum/tagDen
placeOrder(w, currentPrice, maxTicks, minLots, tagNum, tagDen) ==
    LET side   == IF Float64Less(w.rng, 1, 2) THEN SideSell ELSE SideBuy
        r1     == AfterUint32(w.rng)
        offset == IntRange(r1, 1, maxTicks) * w.tickSize
        r2     == AfterIntRange(r1, 1, maxTicks)
        snapped == IF side = SideBuy THEN snapPrice(currentPrice - offset, w.tickSize)
                                     ELSE snapPrice(currentPrice + offset, w.tickSize)
        price  == IF snapped < w.tickSize THEN w.tickSize ELSE snapped
        shares == IntRange(r2, minLots, 10) * 100
        r3     == AfterIntRange(r2, minLots, 10)
        id     == NextOrderID(w.orderIDCounter)
        tagged == Float64Less(r3, tagNum, tagDen)
        r4     == AfterUint32(r3)
        o      == [ID |-> id, Locate |-> w.locateCode, Side |-> side, Price |-> price,
                   Shares |-> shares, Priority |-> 0,
                   MPID |-> IF tagged THEN mpids[Intn(r4, Len(mpids)) + 1] ELSE ""]
    IN [w EXCEPT !.rng = IF tagged THEN AfterIntn(r4, Len(mpids)) ELSE r4,
                 !.orderIDCounter = id,
                 !.book = AddOrder(@, o),
                 !.msgs = Append(@, makeAddOrderMsg(w, o))]

\* Simulator.doAdd: 1-10 ticks away, 1..10 lots, 20% tagged
doAdd(w, currentPrice) == placeOrder(w, currentPrice, 10, 1, 1, 5)

\* Simulator.doReplenish: 1-5 ticks away, 2..10 lots, 25% tagged
doReplenish(w, currentPrice) == placeOrder(w, currentPrice, 5, 2, 1, 4)

\* the order doCancel and doReplace pick: index idx over bids, then asks
PickOrder(b, idx) ==
    IF idx < TotalBidOrders(b) THEN RandomBidOrder(b, idx)
    ELSE RandomAskOrder(b, idx - TotalBidOrders(b))

\* Simulator.doCancel
doCancel(w) ==
    LET total == TotalBidOrders(w.book) + TotalAskOrders(w.book)
        o     == PickOrder(w.book, Intn(w.rng, total))
        rem   == RemoveOrder(w.book, o.ID)
        w1    == [w EXCEPT !.rng = AfterIntn(w.rng, total)]
    IN IF total = 0 THEN w
       ELSE IF o = NilOrder THEN w1
       ELSE IF rem.result = NilOrder THEN [w1 EXCEPT !.book = rem.book]
       ELSE [w1 EXCEPT !.book = rem.book,
                       !.msgs = Append(@, [ZeroMsg EXCEPT !.Type = "D",
                                               !.StockLocate = w.locateCode,
                                               !.OrderRef = o.ID])]

\* Simulator.doReplace
doReplace(w, currentPrice) ==
    LET total   == TotalBidOrders(w.book) + TotalAskOrders(w.book)
        o       == PickOrder(w.book, Intn(w.rng, total))
        r1      == AfterIntn(w.rng, total)
        shift   == IntRange(r1, -2, 2) * w.tickSize
        r2      == AfterIntRange(r1, -2, 2)
        snapped == snapPrice(o.Price + shift, w.tickSize)
        newPrice == IF snapped < w.tickSize THEN w.tickSize ELSE snapped
        newShares == IntRange(r2, 1, 10) * 100
        r3      == AfterIntRange(r2, 1, 10)
        rep     == ReplaceOrder(w.book, w.orderIDCounter, o.ID, newPrice, newShares)
    IN IF total = 0 THEN w
       ELSE IF o = NilOrder THEN [w EXCEPT !.rng = r1]
       ELSE IF rep.result = NilOrder THEN [w EXCEPT !.rng = r3]
       ELSE [w EXCEPT !.rng = r3, !.book = rep.book,
                      !.orderIDCounter = rep.orderIDCounter,
                      !.msgs = Append(@, [ZeroMsg EXCEPT !.Type = "U",
                                              !.StockLocate = w.locateCode,
                                              !.OrderRef = rep.result.ID,
                                              !.OrigOrderRef = o.ID,
                                              !.Shares = newShares,
                                              !.Price = newPrice])]

\* what the book holds for an order id: is it in the id index, and the shares
\* of its entry on a price level (0 when it rests on no level)
Resting(b, orderID) ==
    LET on == SelectSeq(AllLevelOrders(b.Bids) \o AllLevelOrders(b.Asks),
                        LAMBDA o : o.ID = orderID)
    IN [OrderRef |-> orderID, inIndex |-> orderID \in DOMAIN b.orderMap,
        levelEntries |-> Len(on),
        levelShares |-> IF on = <<>> THEN 0 ELSE on[1].Shares]

\* tradeAgainst taking a second match number for the trade message
tradeAgainstTwoMatches(w, r1, o, aggressor) ==
    LET lots        == IntRange(r1, 1, o.Shares \div 100) * 100
        tradeShares == IF lots <= 0 THEN o.Shares ELSE lots
        matchNum    == NextMatchNumber(w.matchCounter)
        executed    == [ZeroMsg EXCEPT !.Type = "E", !.StockLocate = w.locateCode,
                            !.OrderRef = o.ID, !.Shares = tradeShares,
                            !.MatchNumber = matchNum, !.Price = o.Price]
        trade       == [ZeroMsg EXCEPT !.Type = "P", !.StockLocate = w.locateCode,
                            !.OrderRef = o.ID, !.Shares = tradeShares,
                            !.Price = o.Price, !.MatchNumber = NextMatchNumber(matchNum),
                            !.Side = aggressor]
    IN [w EXCEPT !.rng = AfterIntRange(r1, 1, o.Shares \div 100),
                 !.matchCounter = NextMatchNumber(matchNum),
                 !.msgs = @ \o <<executed, trade>>,
                 !.audit = Append(@, Resting(w.book, o.ID)),
                 !.book = ReduceOrder(@, o.ID, tradeShares).book]

\* tradeAgainst reducing the victim before it builds the pair
tradeAgainstReduceFirst(w, r1, o, aggressor) ==
    LET lots        == IntRange(r1, 1, o.Shares \div 100) * 100
        tradeShares == IF lots <= 0 THEN o.Shares ELSE lots
        matchNum    == NextMatchNumber(w.matchCounter)
        reduced     == ReduceOrder(w.book, o.ID, tradeShares).book
        executed    == [ZeroMsg EXCEPT !.Type = "E", !.StockLocate = w.locateCode,
                            !.OrderRef = o.ID, !.Shares = tradeShares,
                            !.MatchNumber = matchNum, !.Price = o.Price]
        trade       == [ZeroMsg EXCEPT !.Type = "P", !.StockLocate = w.locateCode,
                            !.OrderRef = o.ID, !.Shares = tradeShares,
                            !.Price = o.Price, !.MatchNumber = matchNum,
                            !.Side = aggressor]
    IN [w EXCEPT !.rng = AfterIntRange(r1, 1, o.Shares \div 100),
                 !.matchCounter = matchNum,
                 !.msgs = @ \o <<executed, trade>>,
                 !.audit = Append(@, Resting(reduced, o.ID)),
                 !.book = reduced]

\* one branch of doTrade: the aggressor hits victim o, the first order of the
\* best level of the opposite side
tradeAgainst(w, r1, o, aggressor) ==
    LET lots        == IntRange(r1, 1, o.Shares \div 100) * 100
        tradeShares == IF lots <= 0 THEN o.Shares ELSE lots
        matchNum    == NextMatchNumber(w.matchCounter)
        executed    == [ZeroMsg EXCEPT !.Type = "E", !.StockLocate = w.locateCode,
                            !.OrderRef = o.ID, !.Shares = tradeShares,
                            !.MatchNumber = matchNum, !.Price = o.Price]
        trade       == [ZeroMsg EXCEPT !.Type = "P", !.StockLocate = w.locateCode,
                            !.OrderRef = o.ID, !.Shares = tradeShares,
                            !.Price = o.Price, !.MatchNumber = matchNum,
                            !.Side = aggressor]
    IN [w EXCEPT !.rng = AfterIntRange(r1, 1, o.Shares \div 100),
                 !.matchCounter = matchNum,
                 !.msgs = @ \o <<executed, trade>>,
                 !.audit = Append(@, Resting(w.book, o.ID)),
                 !.book = ReduceOrder(@, o.ID, tradeShares).book]

\* doTrade taking its victim from the aggressor's own side
doTradeOwnSide(w) ==
    LET buys == Float64Less(w.rng, 1, 2)
        r1   == AfterUint32(w.rng)
        o    == IF buys THEN RandomBidOrder(w.book, 0) ELSE RandomAskOrder(w.book, 0)
    IN IF BestBid(w.book) = 0 \/ BestAsk(w.book) = 0 THEN w
       ELSE IF o = NilOrder THEN [w EXCEPT !.rng = r1]
       ELSE tradeAgainst(w, r1, o, IF buys THEN SideBuy ELSE SideSell)

\* Simulator.doTrade
doTrade(w) ==
    LET buys == Float64Less(w.rng, 1, 2)
        r1   == AfterUint32(w.rng)
        o    == IF buys THEN RandomAskOrder(w.book, 0) ELSE RandomBidOrder(w.book, 0)
    IN IF BestBid(w.book) = 0 \/ BestAsk(w.book) = 0 THEN w
       ELSE IF o = NilOrder THEN [w EXCEPT !.rng = r1]
       ELSE tradeAgainst(w, r1, o, IF buys THEN SideBuy ELSE SideSell)

actionAdd       == 0
actionCancel    == 1
actionReplace   == 2
actionTrade     == 3
actionReplenish == 4

\* one iteration of Step's loop
stepAction(w, currentPrice) ==
    With(WeightedPick(w.rng, actionWeights), LAMBDA action :
    With([w EXCEPT !.rng = AfterUint32(w.rng)], LAMBDA w1 :
       IF action = actionAdd THEN doAdd(w1, currentPrice)
       ELSE IF action = actionCancel THEN doCancel(w1)
       ELSE IF action = actionReplace THEN doReplace(w1, currentPrice)
       ELSE IF action = actionTrade THEN doTrade(w1)
       ELSE doReplenish(w1, currentPrice)))

RECURSIVE stepLoop(_, _, _)
stepLoop(w, currentPrice, n) ==
    IF n <= 0 THEN w
    ELSE With(stepAction(w, currentPrice), LAMBDA w1 : stepLoop(w1, currentPrice, n - 1))

\* Step taking one action more than it was asked for
StepOneMore(w, currentPrice, numActions) ==
    With([w EXCEPT !.msgs = <<>>, !.audit = <<>>], LAMBDA w0 :
       stepLoop(w0, currentPrice, numActions + 1))
\* Simulator.Step: the world after the call; its msgs is the list returned
Step(w, currentPrice, numActions) ==
    With([w EXCEPT !.msgs = <<>>, !.audit = <<>>], LAMBDA w0 :
       stepLoop(w0, currentPrice, numActions))

\* one order of Initialize: 100..1000 shares floored to a round lot, 30% tagged
initOrder(w, side, price, j) ==
    LET drawn  == IntRange(w.rng, 100, 1000)
        r1     == AfterIntRange(w.rng, 100, 1000)
        id     == NextOrderID(w.orderIDCounter)
        tagged == Float64Less(r1, 3, 10)
        r2     == AfterUint32(r1)
        o      == [ID |-> id, Locate |-> w.locateCode, Side |-> side, Price |-> price,
                   Shares |-> (drawn \div 100) * 100, Priority |-> j,
                   MPID |-> IF tagged THEN mpids[Intn(r2, Len(mpids)) + 1] ELSE ""]
    IN [w EXCEPT !.rng = IF tagged THEN AfterIntn(r2, Len(mpids)) ELSE r2,
                 !.orderIDCounter = id,
                 !.book = AddOrder(@, o),
                 !.msgs = Append(@, makeAddOrderMsg(w, o))]

RECURSIVE initLoop(_, _, _, _)
\* the iterations lo .. hi-1 of the loop of Initialize, in order
initLoop(w, refPrice, lo, hi) ==
    IF hi <= lo THEN w
    ELSE IF hi = lo + 1
    THEN LET offset == ((lo \div OrdersPerLevel) + 1) * w.tickSize
             j      == lo % OrdersPerLevel
         IN With(initOrder(w, SideBuy, snapPrice(refPrice - offset, w.tickSize), j),
               LAMBDA wBid :
                  initOrder(wBid, SideSell, snapPrice(refPrice + offset, w.tickSize), j))
    ELSE With(initLoop(w, refPrice, lo, (lo + hi) \div 2),
            LAMBDA w1 : initLoop(w1, refPrice, (lo + hi) \div 2, hi))

\* Simulator.Initialize
Initialize(w, refPrice) ==
    With([w EXCEPT !.msgs = <<>>, !.audit = <<>>],
       LAMBDA w0 : initLoop(w0, refPrice, 0, MaxLevels * OrdersPerLevel))

\* NewSimulator over a new book, with the counters as given
NewWorld(r, locateCode, tickSize, orderCounter, matchCount) ==
    [rng |-> r, book |-> NewBook, locateCode |-> locateCode, tickSize |-> tickSize,
     orderIDCounter |-> orderCounter, matchCounter |-> matchCount,
     msgs |-> <<>>, audit |-> <<>>]

-----------------------------------------------------------------------------
(* Bounds and inputs of the order-book and simulator specifications         *)

TestSeed   == 42     \* seed of the generator (newTestSimulator uses 42)
TickSize   == 2      \* the symbol's tick size, in price units
RefPrice   == 100    \* reference price given to Initialize, in price units
MaxOps     == 2      \* operations applied to the book in one behaviour
FirstPersistedID == 1001   \* ids of the orders a snapshot holds for this book

Locate1 == 1

\* the world made of the current values of the simulator's variables
World == [rng |-> rng, book |-> book, locateCode |-> Locate1, tickSize |-> TickSize,
          orderIDCounter |-> orderIDCounter, matchCounter |-> matchCounter,
          msgs |-> msgs, audit |-> audit]

\* the simulator's variables take the values of world w
InWorld(w) ==
    /\ rng = w.rng /\ book = w.book /\ orderIDCounter = w.orderIDCounter
    /\ matchCounter = w.matchCounter /\ msgs = w.msgs /\ audit = w.audit
BecomeWorld(w) ==
    /\ rng' = w.rng /\ book' = w.book /\ orderIDCounter' = w.orderIDCounter
    /\ matchCounter' = w.matchCounter /\ msgs' = w.msgs /\ audit' = w.audit

\* a simulator as newTestSimulator builds it, and the same after Initialize
FreshWorld == NewWorld(NewRNG(TestSeed), Locate1, TickSize, 0, 0)
SeededWorld == Initialize(FreshWorld, RefPrice)

NoOp == [op |-> "none", id |-> 0, arg |-> 0, result |-> 0]

\* ids on the levels of a book, and ids of the index that rest on no level
LevelIDs(b) ==
    LET resting == AllLevelOrders(b.Bids) \o AllLevelOrders(b.Asks)
    IN {resting[i].ID : i \in 1..Len(resting)}

\* ids the book operations are called with: the first and the last order of
\* each side, every id of the index that rests on no level, and an id the book
\* has never held
BookIdInputs ==
    LET bids == AllLevelOrders(book.Bids)
        asks == AllLevelOrders(book.Asks)
        ends(q) == IF q = <<>> THEN {} ELSE {q[1].ID, q[Len(q)].ID}
    IN ends(bids) \cup ends(asks) \cup ((DOMAIN book.orderMap) \ LevelIDs(book))
       \cup {orderIDCounter + 1}

\* prices the book operations are called with: at, one tick around and eleven
\* ticks around the reference price
BookPriceInputs == {RefPrice + k * TickSize : k \in {-11, 0, 11}}

BookInit ==
    /\ \E w \in {FreshWorld, SeededWorld} : InWorld(w)
    /\ last = NoOp /\ steps = 0
    /\ DetAtRest /\ SessAtRest /\ TradeAtRest /\ CtrAtRest /\ LifeAtRest

\* b.AddOrder(&Order{ID: NextOrderID(), ...})
BookAdd(side, price, shares) ==
    LET o == [ID |-> NextOrderID(orderIDCounter), Locate |-> Locate1, Side |-> side,
              Price |-> price, Shares |-> shares, Priority |-> 0, MPID |-> ""]
    IN /\ steps < MaxOps /\ steps' = steps + 1
       /\ book' = AddOrder(book, o)
       /\ orderIDCounter' = o.ID
       /\ last' = [op |-> "add", id |-> o.ID, arg |-> price, result |-> 0]
       /\ UNCHANGED <<rng, matchCounter, msgs, audit>> /\ OnlySim

\* b.RestoreOrder(o) for an order of a snapshot
BookRestore(id, side, price, shares) ==
    LET o == [ID |-> id, Locate |-> Locate1, Side |-> side,
              Price |-> price, Shares |-> shares, Priority |-> 0, MPID |-> ""]
    IN /\ steps < MaxOps /\ steps' = steps + 1
       /\ id \notin DOMAIN book.orderMap
       /\ book' = RestoreOrder(book, o)
       /\ last' = [op |-> "restore", id |-> id, arg |-> price, result |-> 0]
       /\ UNCHANGED <<rng, orderIDCounter, matchCounter, msgs, audit>> /\ OnlySim

\* b.RemoveOrder(id)
BookRemove(id) ==
    /\ steps < MaxOps /\ steps' = steps + 1
    /\ book' = RemoveOrder(book, id).book
    /\ last' = [op |-> "remove", id |-> id, arg |-> 0,
                result |-> RemoveOrder(book, id).result.ID]
    /\ UNCHANGED <<rng, orderIDCounter, matchCounter, msgs, audit>> /\ OnlySim

\* b.ReduceOrder(id, reduceBy)
BookReduce(id, reduceBy) ==
    /\ steps < MaxOps /\ steps' = steps + 1
    /\ book' = ReduceOrder(book, id, reduceBy).book
    /\ last' = [op |-> "reduce", id |-> id, arg |-> reduceBy,
                result |-> ReduceOrder(book, id, reduceBy).result]
    /\ UNCHANGED <<rng, orderIDCounter, matchCounter, msgs, audit>> /\ OnlySim

\* b.ReplaceOrder(oldID, newPrice, newShares)
BookReplace(oldID, newPrice, newShares) ==
    LET rep == ReplaceOrder(book, orderIDCounter, oldID, newPrice, newShares)
    IN /\ steps < MaxOps /\ steps' = steps + 1
       /\ book' = rep.book
       /\ orderIDCounter' = rep.orderIDCounter
       /\ last' = [op |-> "replace", id |-> oldID, arg |-> newPrice,
                   result |-> rep.result.ID]
       /\ UNCHANGED <<rng, matchCounter, msgs, audit>> /\ OnlySim

BookNext ==
    \/ \E side \in {SideBuy, SideSell}, price \in BookPriceInputs, shares \in {100, 300} :
          BookAdd(side, price, shares)
    \/ \E id \in {FirstPersistedID, FirstPersistedID + 1}, side \in {SideBuy, SideSell},
          price \in BookPriceInputs : BookRestore(id, side, price, 200)
    \/ \E id \in BookIdInputs : BookRemove(id)
    \/ \E id \in BookIdInputs, reduceBy \in {100, 1000} : BookReduce(id, reduceBy)
    \/ \E id \in BookIdInputs, price \in BookPriceInputs : BookReplace(id, price, 200)

SpecBook == BookInit /\ [][BookNext]_vars

-----------------------------------------------------------------------------
(* Claims about the order book                                              *)

\* every id of the index rests on exactly one price level of the book
IndexMatchesLevels(b) ==
    LET resting == AllLevelOrders(b.Bids) \o AllLevelOrders(b.Asks)
    IN /\ OrderCount(b) = TotalBidOrders(b) + TotalAskOrders(b)
       /\ \A id \in DOMAIN b.orderMap :
             Cardinality({i \in 1..Len(resting) : resting[i].ID = id}) = 1

\* C1: in every reachable state of a book, OrderCount() equals
\* TotalBidOrders()+TotalAskOrders() and every id of the id index is on exactly
\* one price level, also after an add that creates an 11th level on a side.
C1_IndexEqualsLevels == IndexMatchesLevels(book)

\* C2: after any sequence of add, remove, reduce and replace (and restore),
\* each side has at most MaxLevels (10) price levels and every price level
\* present holds at least one order.
C2_LevelsBoundedNonEmpty ==
    /\ BidLevels(book) <= MaxLevels /\ AskLevels(book) <= MaxLevels
    /\ \A i \in 1..Len(book.Bids) : Len(book.Bids[i].Orders) >= 1
    /\ \A i \in 1..Len(book.Asks) : Len(book.Asks[i].Orders) >= 1

\* C2 witness: an add at a new price met a full side: the side still has
\* MaxLevels levels and the index holds an order of the discarded level
C2_Witness ==
    /\ last.op = "add"
    /\ BidLevels(book) = MaxLevels \/ AskLevels(book) = MaxLevels
    /\ (DOMAIN book.orderMap) \ LevelIDs(book) # {}

-----------------------------------------------------------------------------
(* The simulator driven as the symbol tasks drive it: Initialize once on a   *)
(* new book, then Step calls.  Step draws either from the generator itself   *)
(* or from a script of values (see Uint32).                                  *)

MaxSimSteps == 2     \* simulator calls in one behaviour

U32(hi, lo) == [hi |-> hi, lo |-> lo]

Scripted(tape) == [state |-> Word64(0), inc |-> Word64(1), hasSpare |-> FALSE,
                   tape |-> tape, scripted |-> TRUE]

\* draws for WeightedPick that select Add, Cancel, Replace, Trade, Replenish
PickAdd       == U32(0, 0)
PickCancel    == U32(19661, 0)
PickReplace   == U32(32768, 0)
PickTrade     == U32(42599, 0)
PickReplenish == U32(52429, 0)
\* draws for Float64: below and not below every threshold used (0.2 .. 0.5)
Low  == U32(0, 0)
High == U32(32768, 0)

\* scripts of one trade action: either aggressor; one lot or every lot
\* (2519 % n = n - 1 for every n in 1..10)
TradeTapes == {<<PickTrade, aggr, U32(0, lots)>> : aggr \in {Low, High}, lots \in {0, 2519}}

\* scripts of one action
ActionTapes ==
    TradeTapes
    \cup {<<PickAdd, side, U32(0, ticks), U32(0, 1), High>> :
             side \in {Low, High}, ticks \in {0, 9}}
    \cup {<<PickAdd, High, U32(0, 0), U32(0, 0), Low, U32(0, 3)>>}
    \cup {<<PickCancel, U32(0, idx)>> : idx \in {0, 30}}
    \cup {<<PickReplace, U32(0, idx), U32(0, shift), U32(0, 2)>> :
             idx \in {0, 59}, shift \in {0, 4}}
    \cup {<<PickReplenish, side, U32(0, 0), U32(0, 0), High>> : side \in {Low, High}}

\* scripts of a Step of n actions: for two actions, a trade before or after
\* any action
StepTapes(n) ==
    IF n = 1 THEN ActionTapes
    ELSE IF n = 2 THEN {a \o t : a \in ActionTapes, t \in TradeTapes}
                       \cup {t \o a : a \in ActionTapes, t \in TradeTapes}
    ELSE {}

\* a reference price fewer than MaxLevels ticks above zero
LowRefPrice == 10
\* reference prices Initialize is called with
InitPriceInputs == {RefPrice, LowRefPrice}

\* current prices Step is called with
StepPriceInputs == {RefPrice, RefPrice + TickSize}

\* what a consumer does with one message of a symbol's stream: A and F add
\* the order, D deletes it, U puts the new reference with the new price and
\* shares in the place of the original, E takes its shares off the order
\* and removes it at 0
Consume(orders, m) ==
    CASE m.Type \in {"A", "F"} ->
            (m.OrderRef :> [Side |-> m.Side, Price |-> m.Price, Shares |-> m.Shares])
               @@ orders
      [] m.Type = "D" -> MapDelete(orders, m.OrderRef)
      [] m.Type = "U" /\ m.OrigOrderRef \in DOMAIN orders ->
            (m.OrderRef :> [Side |-> orders[m.OrigOrderRef].Side, Price |-> m.Price,
                            Shares |-> m.Shares])
               @@ MapDelete(orders, m.OrigOrderRef)
      [] m.Type = "E" /\ m.OrderRef \in DOMAIN orders ->
            IF orders[m.OrderRef].Shares - m.Shares <= 0
            THEN MapDelete(orders, m.OrderRef)
            ELSE [orders EXCEPT ![m.OrderRef].Shares = @ - m.Shares]
      [] OTHER -> orders

RECURSIVE Replay(_, _)
\* the consumer's orders after the messages of a list, in order
Replay(orders, list) ==
    IF list = <<>> THEN orders
    ELSE IF Len(list) = 1 THEN Consume(orders, list[1])
    ELSE With(Replay(orders, SubSeq(list, 1, Len(list) \div 2)), LAMBDA half :
            Replay(half, SubSeq(list, Len(list) \div 2 + 1, Len(list))))

\* the simulator's calls leave everything else as it is
SimOthers == UNCHANGED <<run2, sessVars, tradeVars, ctrVars, pumps, shutVars, market>>

SimInit ==
    /\ InWorld(FreshWorld) /\ last = NoOp /\ steps = 0
    /\ DetAtRest /\ SessAtRest /\ TradeAtRest /\ CtrAtRest /\ LifeAtRest

\* sim.Initialize(refPrice), once, on the new book: SeededWorld is
\* Initialize(FreshWorld, RefPrice)
SimInitialize(refPrice) ==
    /\ steps = 0 /\ steps' = steps + 1
    /\ BecomeWorld(Initialize(World, refPrice))
    /\ last' = [op |-> "Initialize", id |-> 0, arg |-> refPrice, result |-> 0]
    /\ consumer' = Replay(consumer, msgs')
    /\ SimOthers

\* msgs := sim.Step(currentPrice, numActions)
SimStep(currentPrice, numActions) ==
    /\ steps < MaxSimSteps /\ steps' = steps + 1
    /\ BecomeWorld(Step(World, currentPrice, numActions))
    /\ last' = [op |-> "Step", id |-> 0, arg |-> numActions, result |-> 0]
    /\ consumer' = Replay(consumer, msgs')
    /\ SimOthers

\* the same with the draws scripted; the generator itself is left as it is
SimStepScripted(currentPrice, numActions, tape) ==
    /\ steps < MaxSimSteps /\ steps' = steps + 1
    /\ BecomeWorld([Step([World EXCEPT !.rng = Scripted(tape)], currentPrice, numActions)
                       EXCEPT !.rng = rng])
    /\ last' = [op |-> "Step", id |-> 0, arg |-> numActions, result |-> 0]
    /\ consumer' = Replay(consumer, msgs')
    /\ SimOthers

SimNext ==
    \/ \E r \in InitPriceInputs : SimInitialize(r)
    \/ \E p \in StepPriceInputs, n \in {1, 2, 3} : SimStep(p, n)
    \/ \E p \in StepPriceInputs, n \in {1, 2} : \E tape \in StepTapes(n) :
          SimStepScripted(p, n, tape)

SpecSim == SimInit /\ [][SimNext]_vars

-----------------------------------------------------------------------------
(* Claims about Step's output                                               *)

\* C3: in the list a Step call returns, every executed (E) message is
\* immediately followed by a trade (P) message with the same match number, and
\* every P message is immediately preceded by such an E message.
C3_ExecutedTradePaired ==
    \A i \in 1..Len(msgs) :
       /\ msgs[i].Type = "E" =>
             /\ i + 1 <= Len(msgs)
             /\ msgs[i + 1].Type = "P"
             /\ msgs[i + 1].MatchNumber = msgs[i].MatchNumber
       /\ msgs[i].Type = "P" =>
             /\ i > 1
             /\ msgs[i - 1].Type = "E"
             /\ msgs[i - 1].MatchNumber = msgs[i].MatchNumber

\* C3 witness: a Step returned a pair after the message of an earlier action
C3_Witness ==
    /\ last.op = "Step" /\ Len(msgs) = 3
    /\ msgs[1].Type = "A" /\ msgs[2].Type = "E" /\ msgs[3].Type = "P"

\* the executed messages of the last Step, in order
ExecutedMsgs == SelectSeq(msgs, LAMBDA m : m.Type = "E")
TradeMsgs    == SelectSeq(msgs, LAMBDA m : m.Type = "P")

\* C4: for every executed/trade pair Step emits, both messages carry the id of
\* an order that, when the pair was created (before the reduce), was in the
\* book's id index and rested on a price level with remaining shares > 0.
C4_TradeReferencesRestingOrder ==
    /\ Len(ExecutedMsgs) = Len(audit) /\ Len(TradeMsgs) = Len(audit)
    /\ \A k \in 1..Len(audit) :
          /\ ExecutedMsgs[k].OrderRef = audit[k].OrderRef
          /\ TradeMsgs[k].OrderRef = audit[k].OrderRef
          /\ audit[k].inIndex
          /\ audit[k].levelEntries >= 1
          /\ audit[k].levelShares > 0

\* C4 witness: one Step traded twice; the first trade executed its victim in
\* full, so the second pair references another order
C4_Witness ==
    /\ Len(audit) = 2
    /\ ExecutedMsgs[1].Shares = audit[1].levelShares
    /\ audit[2].OrderRef # audit[1].OrderRef

-----------------------------------------------------------------------------
(* Two runs of one simulator: same seed, counters reset, empty books (whose  *)
(* maps iterate in their own orders), the same Initialize and Step calls.    *)

MaxDetSteps == 3     \* calls applied to the two runs in one behaviour

SeedInputs == {TestSeed, TestSeed + 1}

\* newTestSimulator with the given seed
DetWorld(seed, iter) ==
    [NewWorld(NewRNG(seed), Locate1, TickSize, 0, 0) EXCEPT !.book.iter = iter]

DetInit ==
    /\ \E seed \in SeedInputs, i1 \in {0, 1}, i2 \in {0, 1} :
          InWorld(DetWorld(seed, i1)) /\ run2 = DetWorld(seed, i2)
    /\ last = NoOp /\ steps = 0
    /\ SessAtRest /\ TradeAtRest /\ CtrAtRest /\ LifeAtRest

\* both runs call Initialize(refPrice)
DetInitialize(refPrice) ==
    /\ steps = 0 /\ steps' = 1
    /\ BecomeWorld(Initialize(World, refPrice))
    /\ run2' = Initialize(run2, refPrice)
    /\ last' = [op |-> "Initialize", id |-> 0, arg |-> refPrice, result |-> 0]
    /\ UNCHANGED <<sessVars, tradeVars, ctrVars, lifeVars>>

\* both runs call Step(currentPrice, numActions)
DetStep(currentPrice, numActions) ==
    /\ steps >= 1 /\ steps < MaxDetSteps /\ steps' = steps + 1
    /\ BecomeWorld(Step(World, currentPrice, numActions))
    /\ run2' = Step(run2, currentPrice, numActions)
    /\ last' = [op |-> "Step", id |-> 0, arg |-> numActions, result |-> 0]
    /\ UNCHANGED <<sessVars, tradeVars, ctrVars, lifeVars>>

DetNext ==
    \/ \E refPrice \in StepPriceInputs : DetInitialize(refPrice)
    \/ \E p \in StepPriceInputs, n \in {1, 2, 3} : DetStep(p, n)

SpecDet == DetInit /\ [][DetNext]_vars

-----------------------------------------------------------------------------
(* The global counters under concurrent callers.  A call of NextOrderID or   *)
(* NextMatchNumber is invoked, performs its atomic add, and returns; each    *)
(* symbol task creates the orders of its own book with the ids it is given.  *)

MaxCalls == 3        \* counter calls in one behaviour

Locates == {1, 2}    \* locate codes of the symbols whose tasks are modelled

CounterOf(kind) == IF kind = "order" THEN orderIDCounter ELSE matchCounter

CtrInit ==
    /\ rng = <<>> /\ book = <<>> /\ msgs = <<>> /\ audit = <<>> /\ last = <<>> /\ steps = 0
    /\ orderIDCounter = 0 /\ matchCounter = 0
    /\ callers = [t \in Locates |-> [pc |-> "idle", kind |-> "order", stale |-> 0, call |-> 0]]
    /\ calls = <<>>
    /\ DetAtRest /\ SessAtRest /\ TradeAtRest /\ LifeAtRest

\* task t calls NextOrderID() or NextMatchNumber(); the call's record notes
\* which calls had returned before it began
CtrInvoke(t, kind) ==
    /\ callers[t].pc = "idle" /\ Len(calls) < MaxCalls
    /\ calls' = Append(calls, [task |-> t, kind |-> kind, value |-> 0, done |-> FALSE,
                               after |-> {j \in 1..Len(calls) : calls[j].done}])
    /\ callers' = [callers EXCEPT ![t] = [pc |-> "called", kind |-> kind,
                                          stale |-> CounterOf(kind), call |-> Len(calls) + 1]]
    /\ UNCHANGED <<simVars, run2, sessVars, tradeVars, lifeVars>>

\* the atomic add of the call
CtrAdd(t) ==
    LET c == callers[t]
        v == AddUint64(CounterOf(c.kind), c.stale, 1)
    IN /\ c.pc = "called"
       /\ orderIDCounter' = IF c.kind = "order" THEN v ELSE orderIDCounter
       /\ matchCounter' = IF c.kind = "match" THEN v ELSE matchCounter
       /\ calls' = [calls EXCEPT ![c.call].value = v]
       /\ callers' = [callers EXCEPT ![t].pc = "added"]
       /\ UNCHANGED <<rng, book, msgs, audit, last, steps, run2, sessVars, tradeVars, lifeVars>>

\* the call returns the value of its add
CtrReturn(t) ==
    /\ callers[t].pc = "added"
    /\ calls' = [calls EXCEPT ![callers[t].call].done = TRUE]
    /\ callers' = [callers EXCEPT ![t].pc = "idle"]
    /\ UNCHANGED <<simVars, run2, sessVars, tradeVars, lifeVars>>

CtrNext ==
    \/ \E t \in Locates, kind \in {"order", "match"} : CtrInvoke(t, kind)
    \/ \E t \in Locates : CtrAdd(t)
    \/ \E t \in Locates : CtrReturn(t)

SpecCounter == CtrInit /\ [][CtrNext]_vars

\* C9: under any interleaving of the callers, no two NextOrderID calls are
\* given the same value, and a call is given a value strictly greater than
\* that of every call that had returned before it began; the same for
\* NextMatchNumber.  The ids are those of the orders the tasks create, so no
\* two orders of one book or of two books share an id.
C9_CounterValuesUniqueIncreasing ==
    \A i \in 1..Len(calls), j \in 1..Len(calls) :
       (i # j /\ calls[i].kind = calls[j].kind /\ calls[i].value # 0 /\ calls[j].value # 0) =>
          /\ calls[i].value # calls[j].value
          /\ j \in calls[i].after => calls[i].value > calls[j].value

\* C9 witness: two tasks' NextOrderID calls overlapped (neither returned before
\* the other began) and both returned, and a later call followed them
C9_Witness ==
    \E i \in 1..Len(calls), j \in 1..Len(calls), k \in 1..Len(calls) :
       /\ calls[i].task # calls[j].task
       /\ calls[i].kind = "order" /\ calls[j].kind = "order" /\ calls[k].kind = "order"
       /\ calls[i].done /\ calls[j].done /\ calls[k].done
       /\ i \notin calls[j].after /\ j \notin calls[i].after
       /\ {i, j} \subseteq calls[k].after

-----------------------------------------------------------------------------
(* The trade channel: the symbol tasks' enqueueTrades calls, one message at  *)
(* a time, and the tradeWriter tasks, which receive when they get to run.    *)

TradeChCap == 2      \* capacity of tradeCh in the model (main makes it 4096)
MaxBatches == 2      \* enqueueTrades calls in one behaviour

\* a receive from a channel that takes the newest item
RecvNewest(ch) == [data |-> ch[Len(ch)], ch |-> SubSeq(ch, 1, Len(ch) - 1)]
\* a receive from a channel: the oldest item
Recv(ch) == [data |-> Head(ch), ch |-> Tail(ch)]

\* select { case ch <- rec: default: } on a channel of capacity cap that
\* blocks no sender: the record is queued if there is room
TrySendAnyway(ch, rec, cap) == [ch |-> Append(ch, rec), ok |-> TRUE]
TrySend(ch, rec, cap) ==
    IF Len(ch) < cap THEN [ch |-> Append(ch, rec), ok |-> TRUE]
    ELSE [ch |-> ch, ok |-> FALSE]

\* tradeRecord{...} of a message, as enqueueTrades builds it
tradeRecord(locate, m) ==
    [matchNumber |-> m.MatchNumber, locate |-> locate, price |-> m.Price,
     shares |-> m.Shares, aggressor |-> m.Side]

\* the executed/trade pair of one trade, as doTrade emits it
TradePair(locate, matchNum, aggressor, shares) ==
    << [ZeroMsg EXCEPT !.Type = "E", !.StockLocate = locate, !.OrderRef = matchNum,
                       !.Shares = shares, !.MatchNumber = matchNum, !.Price = RefPrice],
       [ZeroMsg EXCEPT !.Type = "P", !.StockLocate = locate, !.OrderRef = matchNum,
                       !.Shares = shares, !.MatchNumber = matchNum, !.Price = RefPrice,
                       !.Side = aggressor] >>

\* Step outputs of a symbol when the match counter is mc: a cancel, one trade,
\* two trades, an add and a trade
BatchInputs(locate, mc) ==
    { << [ZeroMsg EXCEPT !.Type = "X", !.StockLocate = locate] >>,
      TradePair(locate, mc + 1, SideBuy, 100),
      TradePair(locate, mc + 1, SideSell, 200) \o TradePair(locate, mc + 2, SideBuy, 100),
      << [ZeroMsg EXCEPT !.Type = "A", !.StockLocate = locate] >>
         \o TradePair(locate, mc + 1, SideSell, 100) }

\* the match numbers of a batch
MatchNumbers(batch) == {batch[i].MatchNumber : i \in 1..Len(batch)}

TradeInit ==
    /\ rng = <<>> /\ book = <<>> /\ msgs = <<>> /\ audit = <<>> /\ last = <<>>
    /\ orderIDCounter = 0 /\ matchCounter = 0 /\ steps = 0
    /\ tradeCh = <<>> /\ saved = <<>>
    /\ enq = [l \in Locates |-> [pc |-> "idle", batch |-> <<>>, i |-> 1, outcome |-> <<>>]]
    /\ DetAtRest /\ SessAtRest /\ CtrAtRest /\ LifeAtRest

\* task l calls enqueueTrades(tradeCh, l, msgs) with the output of its Step
EnqueueCall(l, batch) ==
    /\ enq[l].pc = "idle" /\ steps < MaxBatches /\ steps' = steps + 1
    /\ matchCounter' = matchCounter + Cardinality(MatchNumbers(batch) \ {0})
    /\ enq' = [enq EXCEPT ![l] = [pc |-> IF batch = <<>> THEN "idle" ELSE "run",
                                  batch |-> batch, i |-> 1, outcome |-> <<>>]]
    /\ UNCHANGED <<rng, book, orderIDCounter, msgs, audit, last, run2, sessVars,
                   tradeCh, saved, ctrVars, lifeVars>>

\* one iteration of its loop: a message that is no trade is passed over, a
\* trade is sent or dropped; outcome notes, per message, what the send did and
\* how many records the channel held
EnqueueVisit(l) ==
    LET e    == enq[l]
        m    == e.batch[e.i]
        sent == TrySend(tradeCh, tradeRecord(l, m), TradeChCap)
        note == [trade |-> m.Type = "P", ok |-> m.Type = "P" /\ sent.ok, held |-> Len(tradeCh)]
    IN /\ e.pc = "run"
       /\ tradeCh' = IF m.Type = "P" THEN sent.ch ELSE tradeCh
       /\ enq' = [enq EXCEPT ![l].i = e.i + 1,
                             ![l].outcome = Append(e.outcome, note),
                             ![l].pc = IF e.i = Len(e.batch) THEN "idle" ELSE "run"]
       /\ UNCHANGED <<simVars, run2, sessVars, saved, ctrVars, lifeVars>>

\* a tradeWriter receives a record (tr := <-ch) and saves it
TradeWriter ==
    /\ tradeCh # <<>>
    /\ saved' = Append(saved, Recv(tradeCh).data)
    /\ tradeCh' = Recv(tradeCh).ch
    /\ UNCHANGED <<simVars, run2, sessVars, enq, ctrVars, lifeVars>>

TradeNext ==
    \/ \E l \in Locates : \E batch \in BatchInputs(l, matchCounter) : EnqueueCall(l, batch)
    \/ \E l \in Locates : EnqueueVisit(l)
    \/ TradeWriter

SpecTrade == TradeInit /\ [][TradeNext]_vars

\* every record the channel has been given, in the order given
TradeHistory == saved \o tradeCh

\* C8: enqueueTrades never blocks: while a call is running its next iteration
\* can be taken whatever the channel holds and whatever the writers did; for
\* each trade (P) message it has visited, the channel was given exactly one
\* record, made of that message's match number, the locate, price, shares and
\* aggressor side, if it held fewer than its capacity of records, and no
\* record otherwise; other messages give no record; the channel never holds
\* more than its capacity.
C8_EnqueueTradesNeverBlocks ==
    /\ Len(tradeCh) <= TradeChCap
    /\ \A l \in Locates :
          LET e == enq[l]
          IN /\ e.pc = "run" => ENABLED EnqueueVisit(l)
             /\ \A k \in 1..Len(e.outcome) :
                   LET m    == e.batch[k]
                       recs == {n \in 1..Len(TradeHistory) :
                                   /\ TradeHistory[n].locate = l
                                   /\ TradeHistory[n].matchNumber = m.MatchNumber}
                   IN /\ e.outcome[k].trade = (m.Type = "P")
                      /\ e.outcome[k].ok = (m.Type = "P" /\ e.outcome[k].held < TradeChCap)
                      /\ IF e.outcome[k].ok
                         THEN /\ Cardinality(recs) = 1
                              /\ \A n \in recs : TradeHistory[n] = tradeRecord(l, m)
                         ELSE m.Type = "P" => recs = {}

\* C8 witness: a call that has finished found the channel full at one of its
\* trades and dropped it, and had one of its trades queued
C8_Witness ==
    \E l \in Locates :
       /\ enq[l].pc = "idle"
       /\ \E k \in 1..Len(enq[l].outcome) :
             enq[l].outcome[k].trade /\ ~enq[l].outcome[k].ok
       /\ \E k \in 1..Len(enq[l].outcome) : enq[l].outcome[k].ok

-----------------------------------------------------------------------------
(* The session layer: clients, their send queues, Broadcast's walk over the  *)
(* registered clients (one Send at a time, concurrently with the other       *)
(* symbol tasks and with the clients' readPump and writePump), and           *)
(* handleControl.  An encoded message is an item [Format, Type, StockLocate, *)
(* Seq]: Seq is the position of the message in the output of its symbol's    *)
(* successive Step calls, 0 for a message no Step produced.                  *)

FormatJSON   == 0
FormatBinary == 1

BufferSize    == 2   \* capacity of a client's sendCh (Manager.bufferSize)
MaxBroadcasts == 2   \* Broadcast calls in one behaviour
MaxControls   == 1   \* control messages in one behaviour

ClientIds == {1, 2}

\* message types EncodeJSON and EncodeBinary support
EncodableTypes == {"S", "R", "H", "A", "F", "E", "X", "D", "U", "P"}

\* NewClient
NewClient == [format |-> FormatJSON, symbols |-> {}, allSymbols |-> FALSE,
              sendCh |-> <<>>, Dropped |-> 0]

\* Client.IsSubscribed without the all-symbols flag
IsSubscribedExplicit(c, locate) == locate \in c.symbols
\* Client.IsSubscribed
IsSubscribed(c, locate) == IF c.allSymbols THEN TRUE ELSE locate \in c.symbols

\* Client.Send that counts no drop
SendUncounted(c, data) ==
    IF Len(c.sendCh) < BufferSize
    THEN [client |-> [c EXCEPT !.sendCh = Append(@, data)], ok |-> TRUE]
    ELSE [client |-> c, ok |-> FALSE]
\* Client.Send: the client after the call and the value returned
Send(c, data) ==
    IF Len(c.sendCh) < BufferSize
    THEN [client |-> [c EXCEPT !.sendCh = Append(@, data)], ok |-> TRUE]
    ELSE [client |-> [c EXCEPT !.Dropped = @ + 1], ok |-> FALSE]

\* itch.EncodeJSON / itch.EncodeBinary of a message of a supported type
Encode(format, m) ==
    [Format |-> format, Type |-> m.Type, StockLocate |-> m.StockLocate, Seq |-> m.Seq]

\* encodeAllJSON / encodeAllBinary: messages that do not encode are left out
encodeAll(format, batch) ==
    LET ok == SelectSeq(batch, LAMBDA m : m.Type \in EncodableTypes)
    IN [i \in 1..Len(ok) |-> Encode(format, ok[i])]

\* the message lists Broadcast is called with for a symbol whose Step calls
\* have produced n messages: a trade's pair, and (no Step output) a
\* message of no supported type followed by an add
BroadcastInputs(locate, n) ==
    LET msg(type, seq) == [Type |-> type, StockLocate |-> locate, Seq |-> seq]
    IN { <<msg("E", n + 1), msg("P", n + 2)>>,
         <<msg("?", n + 1), msg("A", n + 2)>> }

\* the stock directory messages sendStockDirectory builds, in symbol order
DirectoryOf(locates) ==
    LET all == Ascending(Locates)
        in  == SelectSeq(all, LAMBDA l : l \in locates)
    IN [i \in 1..Len(in) |-> [Type |-> "R", StockLocate |-> in[i], Seq |-> 0]]

\* no Broadcast call in progress
IdleBroadcast == [pc |-> "idle", batch |-> <<>>, todo |-> {}, cur |-> 0, format |-> FormatJSON,
                  data |-> <<>>, json |-> <<>>, binary |-> <<>>, once |-> {},
                  encodes |-> [f \in {FormatJSON, FormatBinary} |-> 0]]

\* a frame as readPump sees it: does json.Unmarshal accept it, and the
\* fields of the controlMessage it yields
Frame(json, action, symbols, format) ==
    [json |-> json, Action |-> action, Symbols |-> symbols, Format |-> format]
NoFrame == Frame(FALSE, "", <<>>, "")

\* the websocket frame types writePump uses
TextMessage   == "text"
BinaryMessage == "binary"

\* the frame writePump writes for an item: its type is chosen by the format
\* the client has when the item is written
WriteMessage(c, data) ==
    data @@ [msgType |-> IF c.format = FormatBinary THEN BinaryMessage ELSE TextMessage]

\* Two clients are registered (Manager.Register: NewClient, added to
\* m.clients) and have sent control messages: client 1 subscribed to "*",
\* client 2 subscribed to the first symbol and then chose binary; their
\* writePumps have written the stock directory messages.
SessInit ==
    /\ SimAtRest /\ DetAtRest /\ TradeAtRest /\ CtrAtRest /\ LifeAtRest
    /\ clients = [c \in ClientIds |->
                     IF c = 1 THEN [NewClient EXCEPT !.allSymbols = TRUE]
                     ELSE [NewClient EXCEPT !.symbols = {1}, !.format = FormatBinary]]
    /\ taken = [c \in ClientIds |->
                   LET dir == encodeAll(FormatJSON, DirectoryOf(IF c = 1 THEN Locates ELSE {1}))
                   IN [i \in 1..Len(dir) |-> WriteMessage(NewClient, dir[i])]]
    /\ bcast = [l \in Locates |-> IdleBroadcast]
    /\ emitted = [l \in Locates |-> 0]
    /\ ctl = [c \in ClientIds |-> [dir |-> <<>>, n |-> 0, frame |-> NoFrame]]

NotSess == <<simVars, run2, tradeVars, ctrVars, lifeVars>>


\* a Broadcast walk that has no client left to visit returns (encodes, the
\* number of times the call encoded the batch per format, is kept)
AfterWalk(b) ==
    IF b.todo = {} /\ b.cur = 0 THEN [IdleBroadcast EXCEPT !.encodes = b.encodes] ELSE b

\* the symbol task of locate calls mgr.Broadcast(locate, stock, batch): an
\* empty batch returns at once; otherwise the walk over m.clients begins
BroadcastCall(locate, batch) ==
    /\ bcast[locate].pc = "idle"
    /\ steps < MaxBroadcasts
    /\ steps' = steps + 1
    /\ emitted' = [emitted EXCEPT ![locate] = @ + Len(batch)]
    /\ bcast' = [bcast EXCEPT ![locate] =
                    IF batch = <<>> THEN IdleBroadcast
                    ELSE AfterWalk([IdleBroadcast EXCEPT
                            !.pc = "walk", !.batch = batch, !.todo = DOMAIN clients])]
    /\ UNCHANGED <<clients, taken, ctl, rng, book, orderIDCounter, matchCounter, msgs,
                   audit, last, run2, tradeVars, ctrVars, lifeVars>>

\* the walk reaches client c (the map's iteration order is any order): a
\* client that is not subscribed is passed over; for a subscribed one the
\* batch is encoded in its format unless it already was, and the sends begin
BroadcastVisit(locate, c) ==
    LET b    == bcast[locate]
        f    == clients[c].format
        enc  == f \notin b.once
        data == IF enc THEN encodeAll(f, b.batch)
                ELSE IF f = FormatJSON THEN b.json ELSE b.binary
        b1   == [b EXCEPT !.todo = @ \ {c}]
        b2   == IF ~IsSubscribed(clients[c], locate) THEN b1
                ELSE [b1 EXCEPT !.once = @ \cup {f},
                                !.encodes[f] = IF enc THEN @ + 1 ELSE @,
                                !.json = IF enc /\ f = FormatJSON THEN data ELSE @,
                                !.binary = IF enc /\ f = FormatBinary THEN data ELSE @,
                                !.cur = IF data = <<>> THEN 0 ELSE c,
                                !.format = f,
                                !.data = data]
    IN /\ b.pc = "walk" /\ b.cur = 0 /\ c \in b.todo
       /\ bcast' = [bcast EXCEPT ![locate] = AfterWalk(b2)]
       /\ UNCHANGED <<clients, emitted, taken, ctl, NotSess>>

\* the walk's next c.Send(data) to the client it is at
BroadcastSend(locate) ==
    LET b  == bcast[locate]
        b1 == [b EXCEPT !.data = Tail(@),
                        !.cur = IF Tail(b.data) = <<>> THEN 0 ELSE @]
    IN /\ b.pc = "walk" /\ b.cur # 0
       /\ clients' = [clients EXCEPT ![b.cur] = Send(@, Head(b.data)).client]
       /\ bcast' = [bcast EXCEPT ![locate] = AfterWalk(b1)]
       /\ UNCHANGED <<emitted, taken, ctl, NotSess>>

\* writePump takes the next item of the client's queue and writes it
WritePump(c) ==
    /\ clients[c].sendCh # <<>>
    /\ taken' = [taken EXCEPT ![c] =
                    Append(@, WriteMessage(clients[c], Recv(clients[c].sendCh).data))]
    /\ clients' = [clients EXCEPT ![c].sendCh = Recv(@).ch]
    /\ UNCHANGED <<bcast, emitted, ctl, NotSess>>

\* readPump reads a control message when handleControl has returned
ControlReady(c) ==
    /\ ctl[c].dir = <<>>
    /\ ctl[1].n + ctl[2].n < MaxControls

\* handleControl "subscribe" with "*" among the tickers, or with tickers that
\* resolve to locates: the subscription, then sendStockDirectory's messages,
\* which SendToClient encodes in the client's format
ControlSubscribe(c, all, locates) ==
    LET cl == IF all THEN [clients[c] EXCEPT !.allSymbols = TRUE]
              ELSE [clients[c] EXCEPT !.symbols = @ \cup locates]
        dir == encodeAll(cl.format, DirectoryOf(IF all THEN Locates ELSE locates))
    IN /\ ControlReady(c) /\ (all \/ locates # {})
       /\ clients' = [clients EXCEPT ![c] = cl]
       /\ ctl' = [ctl EXCEPT ![c].dir = dir, ![c].n = @ + 1]
       /\ UNCHANGED <<bcast, emitted, taken, NotSess>>

\* SendToClient's next c.Send(data)
ControlSend(c) ==
    LET r == Send(clients[c], Head(ctl[c].dir))
    IN /\ ctl[c].dir # <<>>
       /\ clients' = [clients EXCEPT ![c] = r.client]
       /\ ctl' = [ctl EXCEPT ![c].dir = Tail(@)]
       /\ UNCHANGED <<bcast, emitted, taken, NotSess>>

\* handleControl "unsubscribe"
ControlUnsubscribe(c, locates) ==
    /\ ControlReady(c) /\ locates # {}
    /\ clients' = [clients EXCEPT ![c].symbols = @ \ locates]
    /\ ctl' = [ctl EXCEPT ![c].n = @ + 1]
    /\ UNCHANGED <<bcast, emitted, taken, NotSess>>

\* handleControl "format" with "binary" or "json"
ControlFormat(c, format) ==
    /\ ControlReady(c)
    /\ clients' = [clients EXCEPT ![c].format = format]
    /\ ctl' = [ctl EXCEPT ![c].n = @ + 1]
    /\ UNCHANGED <<bcast, emitted, taken, NotSess>>

\* the tickers of the symbol table (Manager.byTicker) and their locate codes
byTicker == [t \in {"T1", "T2"} |-> IF t = "T1" THEN 1 ELSE 2]

\* Manager.ResolveTickers that takes an unknown ticker for the first symbol
ResolveTickersGuess(tickers) ==
    [locates |-> [i \in 1..Len(tickers) |->
                     IF tickers[i] \in DOMAIN byTicker THEN byTicker[tickers[i]] ELSE 1],
     all |-> FALSE]
\* Manager.ResolveTickers: (nil, true) when "*" is among the tickers, else the
\* locate codes of the tickers the table knows, in order
ResolveTickers(tickers) ==
    IF \E i \in 1..Len(tickers) : tickers[i] = "*"
    THEN [locates |-> <<>>, all |-> TRUE]
    ELSE LET known == SelectSeq(tickers, LAMBDA t : t \in DOMAIN byTicker)
         IN [locates |-> [i \in 1..Len(known) |-> byTicker[known[i]]], all |-> FALSE]

MaxFrames == 2   \* frames readPump reads from one client in one behaviour

ControlInputs ==
    { Frame(FALSE, "", <<>>, ""),
      Frame(TRUE, "ping", <<"T1">>, "binary"),
      Frame(TRUE, "format", <<"T2">>, "xml"),
      Frame(TRUE, "subscribe", <<"ZZZ">>, ""),
      Frame(TRUE, "unsubscribe", <<"ZZZ", "QQQ">>, "json"),
      Frame(TRUE, "subscribe", <<"ZZZ", "T2">>, ""),
      Frame(TRUE, "subscribe", <<"T1", "*">>, ""),
      Frame(TRUE, "unsubscribe", <<"T1">>, ""),
      Frame(TRUE, "format", <<>>, "binary"),
      Frame(TRUE, "format", <<>>, "json") }

\* readPump's loop body for a frame read without error: a frame that
\* json.Unmarshal rejects is logged and the loop continues; otherwise
\* handleControl: the subscription change, then sendStockDirectory's
\* messages, which SendToClient encodes in the client's format
ReadPumpFrame(c, frame) ==
    LET cl   == clients[c]
        r    == ResolveTickers(frame.Symbols)
        locs == {r.locates[i] : i \in 1..Len(r.locates)}
        cl1  == IF ~frame.json THEN cl
                ELSE CASE frame.Action = "subscribe" ->
                            IF r.all THEN [cl EXCEPT !.allSymbols = TRUE]
                            ELSE IF Len(r.locates) > 0
                            THEN [cl EXCEPT !.symbols = @ \cup locs]
                            ELSE cl
                       [] frame.Action = "unsubscribe" ->
                            IF Len(r.locates) > 0
                            THEN [cl EXCEPT !.symbols = @ \ locs]
                            ELSE cl
                       [] frame.Action = "format" ->
                            CASE frame.Format = "binary" -> [cl EXCEPT !.format = FormatBinary]
                              [] frame.Format = "json"   -> [cl EXCEPT !.format = FormatJSON]
                              [] OTHER                   -> cl
                       [] OTHER -> cl
        dir  == IF frame.json /\ frame.Action = "subscribe" /\ (r.all \/ Len(r.locates) > 0)
                THEN encodeAll(cl1.format, DirectoryOf(IF r.all THEN Locates ELSE locs))
                ELSE <<>>
    IN /\ c \in DOMAIN clients
       /\ ctl[c].dir = <<>> /\ ctl[c].n < MaxFrames
       /\ clients' = [clients EXCEPT ![c] = cl1]
       /\ ctl' = [ctl EXCEPT ![c] = [dir |-> dir, n |-> @.n + 1, frame |-> frame]]
       /\ UNCHANGED <<bcast, emitted, taken, NotSess>>

\* one client's connection at a time: the frames readPump reads, the sends
\* of SendToClient, and writePump
CtlNext ==
    \/ \E c \in ClientIds, frame \in ControlInputs : ReadPumpFrame(c, frame)
    \/ \E c \in ClientIds : ControlSend(c)
    \/ \E c \in ClientIds : WritePump(c)

SpecControl == SessInit /\ [][CtlNext]_vars

SessNext ==
    \/ \E l \in Locates : \E batch \in BroadcastInputs(l, emitted[l]) : BroadcastCall(l, batch)
    \/ \E l \in Locates, c \in ClientIds : BroadcastVisit(l, c)
    \/ \E l \in Locates : BroadcastSend(l)
    \/ \E c \in ClientIds : WritePump(c)
    \/ \E c \in ClientIds : ControlSubscribe(c, TRUE, {})
    \/ \E c \in ClientIds : ControlSubscribe(c, FALSE, {2})
    \/ \E c \in ClientIds : ControlSend(c)
    \/ \E c \in ClientIds : ControlUnsubscribe(c, {1})
    \/ \E c \in ClientIds, f \in {FormatJSON, FormatBinary} : ControlFormat(c, f)

SpecSession == SessInit /\ [][SessNext]_vars

-----------------------------------------------------------------------------
(* Claims about the session layer                                           *)

\* the call Send(data) on client c meets Send's contract
SendContract(c, data) ==
    LET q == clients[c].sendCh
        r == Send(clients[c], data)
    IN IF Len(q) < BufferSize
       THEN r.ok /\ r.client.sendCh = Append(q, data)
                 /\ r.client.Dropped = clients[c].Dropped
       ELSE ~r.ok /\ r.client.sendCh = q
                  /\ r.client.Dropped = clients[c].Dropped + 1

\* the effect on client c of the step that sends it data
SendEffect(c, data) ==
    LET q == clients[c].sendCh
    IN IF Len(q) < BufferSize
       THEN clients'[c].sendCh = Append(q, data)
            /\ clients'[c].Dropped = clients[c].Dropped
       ELSE clients'[c].sendCh = q
            /\ clients'[c].Dropped = clients[c].Dropped + 1

\* the step is a Send of the Broadcast walk of l; of SendToClient for c
IsBroadcastSend(l) == bcast[l].cur # 0 /\ bcast'[l] # bcast[l]
IsControlSend(c)   == ctl[c].dir # <<>> /\ ctl'[c] # ctl[c]

\* C5: Client.Send never blocks (a caller that is to send can always take its
\* step).  With fewer items queued than the capacity it appends the item at
\* the tail, returns true and leaves Dropped as it is; with a full queue it
\* returns false, leaves the queue as it is and adds exactly 1 to Dropped.
C5_SendNonBlocking ==
    /\ [](/\ \A l \in Locates : bcast[l].cur # 0 =>
               /\ ENABLED BroadcastSend(l)
               /\ SendContract(bcast[l].cur, Head(bcast[l].data))
          /\ \A c \in ClientIds : ctl[c].dir # <<>> =>
               /\ ENABLED ControlSend(c)
               /\ SendContract(c, Head(ctl[c].dir)))
    /\ [][/\ \A l \in Locates : IsBroadcastSend(l) =>
                SendEffect(bcast[l].cur, Head(bcast[l].data))
          /\ \A c \in ClientIds : IsControlSend(c) =>
                SendEffect(c, Head(ctl[c].dir))]_vars

\* C5 witness: a client whose queue is full of items sent to it has had a
\* Send refused
C5_Witness ==
    \E c \in ClientIds :
       /\ clients[c].Dropped = 1
       /\ Len(clients[c].sendCh) = BufferSize
       /\ clients[c].sendCh[BufferSize].Seq > 0

\* what a subscription is, and what a batch encodes to
SubscribedTo(cl, locate) == cl.allSymbols \/ locate \in cl.symbols
Expected(format, batch) ==
    LET ok == SelectSeq(batch, LAMBDA m : m.Type \in EncodableTypes)
    IN [i \in 1..Len(ok) |-> [Format |-> format, Type |-> ok[i].Type,
                              StockLocate |-> ok[i].StockLocate, Seq |-> ok[i].Seq]]

\* the step is the visit of a client by the Broadcast walk of l
IsBroadcastVisit(l) == bcast[l].pc = "walk" /\ bcast[l].cur = 0 /\ bcast'[l] # bcast[l]

\* C6: in every Broadcast(locate, stock, msgs), a registered client that is
\* subscribed to locate (explicitly or through the all flag) is sent one item
\* per encodable message of the batch, in batch order, encoded in the format
\* the client has when the walk reaches it, and each of them that finds room
\* is appended to its queue; a client that is not subscribed is sent nothing,
\* and a queue grows by nothing but what is sent to its client.  A call
\* encodes the batch at most once per format.
C6_BroadcastFanOut ==
    /\ [](\A l \in Locates : \A f \in {FormatJSON, FormatBinary} : bcast[l].encodes[f] <= 1)
    /\ [][/\ \A l \in Locates : IsBroadcastVisit(l) =>
              \A c \in bcast[l].todo \ bcast'[l].todo :
                 LET items == Expected(clients[c].format, bcast[l].batch)
                 IN /\ clients' = clients
                    /\ IF SubscribedTo(clients[c], l) /\ items # <<>>
                       THEN bcast'[l].cur = c /\ bcast'[l].data = items
                       ELSE bcast'[l].cur = 0
          /\ \A l \in Locates : IsBroadcastSend(l) =>
                LET c == bcast[l].cur
                    q == clients[c].sendCh
                IN /\ Len(q) < BufferSize => clients'[c].sendCh = Append(q, Head(bcast[l].data))
                   /\ IF Len(bcast[l].data) > 1
                      THEN bcast'[l].cur = c /\ bcast'[l].data = Tail(bcast[l].data)
                      ELSE bcast'[l].cur = 0
          /\ \A c \in ClientIds :
                Len(clients'[c].sendCh) > Len(clients[c].sendCh) =>
                   \/ \E l \in Locates : IsBroadcastSend(l) /\ bcast[l].cur = c
                   \/ IsControlSend(c)]_vars

\* C6 witness: a walk that encoded the batch once is sending to the second of
\* two subscribed clients of one format, the first of which holds an item of
\* the batch
C6_Witness ==
    \E l \in Locates, c \in ClientIds, d \in ClientIds :
       /\ bcast[l].pc = "walk" /\ bcast[l].cur = c /\ bcast[l].todo = {} /\ d # c
       /\ clients[c].format = clients[d].format
       /\ bcast[l].encodes[clients[c].format] = 1
       /\ \E i \in 1..Len(clients[d].sendCh) :
             /\ clients[d].sendCh[i].StockLocate = l
             /\ \E k \in 1..Len(bcast[l].batch) :
                   bcast[l].batch[k].Seq = clients[d].sendCh[i].Seq

\* the order-flow items of symbol l among those client c's writePump took
TakenOf(c, l) == SelectSeq(taken[c], LAMBDA item : item.StockLocate = l /\ item.Seq > 0)

\* C7: for each client and each symbol, the symbol's order-flow messages the
\* client's writePump has taken from the queue are, in the order taken, a
\* subsequence of the output of the symbol's successive Step calls: positions
\* strictly increase (nothing reordered, nothing twice) and none is beyond
\* what the Steps produced, under any interleaving of the symbol tasks, the
\* readPump and the writePump.
C7_PerSymbolOrderPreserved ==
    \A c \in ClientIds, l \in Locates :
       LET q == TakenOf(c, l)
       IN \A i \in 1..Len(q) :
             /\ q[i].Seq <= emitted[l]
             /\ \A j \in 1..Len(q) : i < j => q[i].Seq < q[j].Seq

\* C7 witness: a client with a dropped message has taken two messages of one
\* symbol that were not adjacent in the Step output
C7_Witness ==
    \E c \in ClientIds, l \in Locates :
       /\ clients[c].Dropped > 0
       /\ \E i \in 1..Len(TakenOf(c, l)) :
             /\ i + 1 <= Len(TakenOf(c, l))
             /\ TakenOf(c, l)[i + 1].Seq >= TakenOf(c, l)[i].Seq + 2

\* C11: when handleControl has processed a client's "unsubscribe" of symbol 1,
\* the client is not subscribed to locate 1 (IsSubscribed returns false, so
\* that later Broadcasts of the symbol pass the client over), whatever
\* subscribe messages were processed before.
C11_UnsubscribedNotSubscribed ==
    [][\A c \in ClientIds :
          ControlUnsubscribe(c, {1}) => ~IsSubscribed(clients'[c], 1)]_vars

\* everything placed on client c's send queue so far, in the order placed
Placed(c) == taken[c] \o clients[c].sendCh

\* C12: for every client and every symbol, each order-book message of the
\* symbol placed on the client's send queue comes after the symbol's stock
\* directory message on that queue, under any interleaving of the client's
\* readPump with the symbol tasks' Broadcast calls.
C12_DirectoryBeforeOrderFlow ==
    \A c \in ClientIds, l \in Locates :
       \A i \in 1..Len(Placed(c)) :
          (Placed(c)[i].StockLocate = l /\ Placed(c)[i].Seq > 0) =>
             \E k \in 1..(i - 1) :
                Placed(c)[k].Type = "R" /\ Placed(c)[k].StockLocate = l

-----------------------------------------------------------------------------
(* Claims about the prices and sizes of the order flow                      *)

\* p is a positive whole number of ticks
OnTick(p) == p >= TickSize /\ p % TickSize = 0

\* the orders resting on the levels of the book
RestingOrders == AllLevelOrders(book.Bids) \o AllLevelOrders(book.Asks)

\* C13: every price carried by a message Initialize or Step returned (add,
\* replace, executed, trade) and the price of every order resting on the
\* book after any Initialize and Step calls is a positive whole multiple of
\* the tick size, whatever reference and current prices were passed in.
C13_PricesPositiveTickMultiples ==
    /\ \A i \in 1..Len(msgs) :
          msgs[i].Type \in {"A", "F", "U", "E", "P"} => OnTick(msgs[i].Price)
    /\ \A i \in 1..Len(RestingOrders) : OnTick(RestingOrders[i].Price)

\* n is a positive number of round lots
RoundLots(n) == n > 0 /\ n % 100 = 0

\* C14: every shares value of a message Initialize or Step returned (add,
\* replace, executed, trade) is a positive multiple of 100, and after any
\* Initialize and Step calls every order resting on the book has remaining
\* shares that are a positive multiple of 100.
C14_SharesPositiveRoundLots ==
    /\ \A i \in 1..Len(msgs) :
          msgs[i].Type \in {"A", "F", "U", "E", "P"} => RoundLots(msgs[i].Shares)
    /\ \A i \in 1..Len(RestingOrders) : RoundLots(RestingOrders[i].Shares)

\* C14 witness: a Step traded twice, executing one order in full (it rests no
\* more) and another in part (it rests with what is left)
C14_Witness ==
    /\ last.op = "Step" /\ Len(audit) = 2
    /\ \E k \in 1..2 :
          /\ ExecutedMsgs[k].Shares = audit[k].levelShares
          /\ \A i \in 1..Len(RestingOrders) : RestingOrders[i].ID # audit[k].OrderRef
    /\ \E k \in 1..2 :
          /\ ExecutedMsgs[k].Shares < audit[k].levelShares
          /\ \E i \in 1..Len(RestingOrders) :
                /\ RestingOrders[i].ID = audit[k].OrderRef
                /\ RestingOrders[i].Shares = audit[k].levelShares - ExecutedMsgs[k].Shares

-----------------------------------------------------------------------------
(* Claims about ReplaceOrder and ReduceOrder                                 *)

\* the entries of the levels of book b that carry this id
EntriesOf(b, id) ==
    SelectSeq(AllLevelOrders(b.Bids) \o AllLevelOrders(b.Asks), LAMBDA o : o.ID = id)

\* C15: ReplaceOrder(oldId, price, shares) on an id of the book takes oldId
\* out of the id index and off its level and, in the same step, inserts an
\* order with an id never used before, the given price and shares and the old
\* order's side, locate and MPID, which GetOrder then returns and which rests
\* on a price level; on an id the book does not hold it returns none, leaves
\* the book as it was and takes no order id.
C15_ReplaceOrderSwaps ==
    [][\A id \in BookIdInputs, price \in BookPriceInputs :
          BookReplace(id, price, 200) =>
             IF id \in DOMAIN book.orderMap
             THEN LET old   == book.orderMap[id]
                      newID == last'.result
                      new   == [ID |-> newID, Locate |-> old.Locate, Side |-> old.Side,
                                Price |-> price, Shares |-> 200, Priority |-> 0,
                                MPID |-> old.MPID]
                  IN /\ GetOrder(book', id) = NilOrder
                     /\ EntriesOf(book', id) = <<>>
                     /\ newID > orderIDCounter
                     /\ newID \notin DOMAIN book.orderMap
                     /\ EntriesOf(book, newID) = <<>>
                     /\ GetOrder(book', newID) = new
                     /\ EntriesOf(book', newID) = <<new>>
             ELSE /\ last'.result = NilOrder.ID
                  /\ book' = book
                  /\ orderIDCounter' = orderIDCounter]_vars

\* the levels of a side with the entries of this id given these shares
Reshared(levels, id, shares) ==
    [i \in 1..Len(levels) |->
        [Price  |-> levels[i].Price,
         Orders |-> [j \in 1..Len(levels[i].Orders) |->
                       IF levels[i].Orders[j].ID = id
                       THEN [levels[i].Orders[j] EXCEPT !.Shares = shares]
                       ELSE levels[i].Orders[j]]]]

\* the levels of a side without the entries of this id and without the
\* levels that held nothing else
Pruned(levels, id) ==
    SelectSeq([i \in 1..Len(levels) |->
                  [Price  |-> levels[i].Price,
                   Orders |-> SelectSeq(levels[i].Orders, LAMBDA o : o.ID # id)]],
              LAMBDA level : level.Orders # <<>>)

\* C16: ReduceOrder(id, delta) on an order of the book with s shares left: if
\* delta < s the order keeps its place on its level, has s-delta shares, and
\* s-delta is returned; if delta >= s the order leaves the id index and its
\* level, a level it leaves empty is deleted, and 0 is returned; for an id
\* the book does not hold the book stays as it was and 0 is returned.
C16_ReduceOrderContract ==
    [][\A id \in BookIdInputs, delta \in {100, 1000} :
          BookReduce(id, delta) =>
             IF id \notin DOMAIN book.orderMap
             THEN book' = book /\ last'.result = 0
             ELSE LET s == book.orderMap[id].Shares
                  IN IF delta < s
                     THEN /\ last'.result = s - delta
                          /\ DOMAIN book'.orderMap = DOMAIN book.orderMap
                          /\ \A k \in DOMAIN book.orderMap :
                                book'.orderMap[k] =
                                   IF k = id THEN [book.orderMap[k] EXCEPT !.Shares = s - delta]
                                   ELSE book.orderMap[k]
                          /\ book'.Bids = Reshared(book.Bids, id, s - delta)
                          /\ book'.Asks = Reshared(book.Asks, id, s - delta)
                     ELSE /\ last'.result = 0
                          /\ DOMAIN book'.orderMap = (DOMAIN book.orderMap) \ {id}
                          /\ \A k \in DOMAIN book'.orderMap :
                                book'.orderMap[k] = book.orderMap[k]
                          /\ book'.Bids = Pruned(book.Bids, id)
                          /\ book'.Asks = Pruned(book.Asks, id)]_vars

\* C16 witness: a reduce by less than the order held left it, with the rest
\* of its shares, behind the orders it was behind on its level
C16_Witness ==
    /\ last.op = "reduce" /\ last.result > 0
    /\ \E i \in 1..Len(book.Asks) : \E j \in 2..Len(book.Asks[i].Orders) :
          /\ book.Asks[i].Orders[j].ID = last.id
          /\ book.Asks[i].Orders[j].Shares = last.result
          /\ GetOrder(book, last.id).Shares = last.result

-----------------------------------------------------------------------------
(* Claims about the number of messages of a Step                            *)

-----------------------------------------------------------------------------
(* The end of a client: a transport failure, the return of its readPump      *)
(* (which unregisters it under the manager's write lock and closes it) and  *)
(* of its writePump (which closes it), while the symbol tasks go on calling *)
(* Broadcast under the read lock.  pumps[c] holds the connection's state,   *)
(* whether c.done is closed, and where each of the two loops is.            *)

\* Client.Close that closes c.done and leaves the connection open
CloseDoneOnly(p) == [p EXCEPT !.done = TRUE]
\* Client.Close: once, close(c.done) and c.Conn.Close()
Close(p) == IF p.done THEN p ELSE [p EXCEPT !.done = TRUE, !.conn = "closed"]

\* Two clients are registered and subscribed, their pumps are running
TdInit ==
    /\ SimAtRest /\ DetAtRest /\ TradeAtRest /\ CtrAtRest /\ ShutAtRest /\ MktAtRest
    /\ ConsumerAtRest
    /\ clients = [c \in ClientIds |->
                     IF c = 1 THEN [NewClient EXCEPT !.allSymbols = TRUE]
                     ELSE [NewClient EXCEPT !.symbols = {1}, !.format = FormatBinary]]
    /\ taken = [c \in ClientIds |-> <<>>]
    /\ bcast = [l \in Locates |-> IdleBroadcast]
    /\ emitted = [l \in Locates |-> 0]
    /\ ctl = [c \in ClientIds |-> [dir |-> <<>>, n |-> 0, frame |-> NoFrame]]
    /\ pumps = [c \in ClientIds |->
                   [conn |-> "open", done |-> FALSE, read |-> "run", write |-> "run"]]

TdRest == <<bcast, emitted, taken, ctl, simVars, run2, tradeVars, ctrVars, shutVars, market,
           consumer>>

\* the client's socket fails: reads fail (error, timeout, close frame) or
\* writes fail (error, timeout)
TransportFails(c, how) ==
    /\ pumps[c].conn = "open"
    /\ pumps' = [pumps EXCEPT ![c].conn = how]
    /\ UNCHANGED <<clients, TdRest>>

\* readPump: c.Conn.ReadMessage() returns an error; the loop returns and the
\* deferred mgr.Unregister(c) begins
ReadPumpFails(c) ==
    /\ pumps[c].read = "run" /\ pumps[c].conn \in {"readErr", "closed"}
    /\ pumps' = [pumps EXCEPT ![c].read = "unregister"]
    /\ UNCHANGED <<clients, TdRest>>

\* Manager.Unregister: delete(m.clients, c.ID) under m.mu.Lock(), which no
\* Broadcast walk (a holder of the read lock) is inside of
UnregisterDelete(c) ==
    /\ pumps[c].read = "unregister"
    /\ \A l \in Locates : bcast[l].pc = "idle"
    /\ clients' = MapDelete(clients, c)
    /\ pumps' = [pumps EXCEPT ![c].read = "close"]
    /\ UNCHANGED TdRest

\* Manager.Unregister: c.Close(); readPump has returned
UnregisterClose(c) ==
    /\ pumps[c].read = "close"
    /\ pumps' = [pumps EXCEPT ![c] = [Close(@) EXCEPT !.read = "returned"]]
    /\ UNCHANGED <<clients, TdRest>>

\* writePump takes an item of the queue and writes it to the socket
WritePumpWrites(c) ==
    /\ c \in DOMAIN clients
    /\ pumps[c].write = "run" /\ pumps[c].conn \in {"open", "readErr"}
    /\ WritePump(c)

\* writePump: c.Conn.WriteMessage (of an item or of a ping) returns an error,
\* or c.Done() is closed; the loop returns and the deferred c.Close() begins
WritePumpFails(c) ==
    /\ pumps[c].write = "run"
    /\ pumps[c].conn \in {"writeErr", "closed"} \/ pumps[c].done
    /\ pumps' = [pumps EXCEPT ![c].write = "close"]
    /\ UNCHANGED <<clients, TdRest>>

\* writePump's deferred c.Close(); writePump has returned
WritePumpClose(c) ==
    /\ pumps[c].write = "close"
    /\ pumps' = [pumps EXCEPT ![c] = [Close(@) EXCEPT !.write = "returned"]]
    /\ UNCHANGED <<clients, TdRest>>

TdBroadcast ==
    \/ \E l \in Locates : BroadcastCall(l, <<[Type |-> "E", StockLocate |-> l, Seq |-> emitted[l] + 1],
                                              [Type |-> "P", StockLocate |-> l, Seq |-> emitted[l] + 2]>>)
    \/ \E l \in Locates : \E c \in DOMAIN clients : BroadcastVisit(l, c)
    \/ \E l \in Locates : BroadcastSend(l)

TdPumps(c) ==
    \/ ReadPumpFails(c)
    \/ UnregisterDelete(c)
    \/ UnregisterClose(c)
    \/ WritePumpFails(c)
    \/ WritePumpClose(c)

TdNext ==
    \/ TdBroadcast
    \/ \E c \in ClientIds, how \in {"readErr", "writeErr"} : TransportFails(c, how)
    \/ \E c \in ClientIds : WritePumpWrites(c)
    \/ \E c \in ClientIds : TdPumps(c)

\* every loop that can take a step is scheduled, and a Broadcast call goes on
SpecTeardown ==
    /\ TdInit /\ [][TdNext]_vars
    /\ WF_vars(\E l \in Locates : \E c \in DOMAIN clients : BroadcastVisit(l, c))
    /\ WF_vars(\E l \in Locates : BroadcastSend(l))
    /\ \A c \in ClientIds : WF_vars(TdPumps(c))

\* C18: when a client's socket read or write fails, the client is in the end
\* out of the registry and its readPump and writePump have returned; all the
\* while a Broadcast walk takes in every registered client, its next Send
\* can always be taken (it waits for no queue, the failed client's
\* included), and a Send to a client whose queue has room puts the item on
\* that queue.
C18_FailedClientTornDown ==
    /\ [](\A l \in Locates : (bcast[l].pc = "walk" /\ bcast[l].cur # 0) =>
              ENABLED BroadcastSend(l))
    /\ [][\A l \in Locates :
             /\ (bcast[l].pc = "idle" /\ bcast'[l].pc = "walk") =>
                   bcast'[l].todo = DOMAIN clients
             /\ IsBroadcastSend(l) => SendEffect(bcast[l].cur, Head(bcast[l].data))]_vars
    /\ \A c \in ClientIds :
          (pumps[c].conn \in {"readErr", "writeErr"}) ~>
             (/\ c \notin DOMAIN clients
              /\ pumps[c].read = "returned" /\ pumps[c].write = "returned")

\* C18 witness: client 2 is out of the registry and its pumps have returned;
\* client 1, still registered and connected, holds an item of the second
\* Broadcast of a symbol
C18_Witness ==
    /\ DOMAIN clients = {1}
    /\ pumps[2].read = "returned" /\ pumps[2].write = "returned"
    /\ pumps[1].conn = "open"
    /\ \E i \in 1..Len(clients[1].sendCh) : clients[1].sendCh[i].Seq > 2

-----------------------------------------------------------------------------
(* Shutdown: main's goroutines and the context they share.  tasks gives,   *)
(* per goroutine, where it is: the fixed-interval symbol task ("sym"), the *)
(* stress symbol task ("stress"), the two trade writers ("w1", "w2"), the  *)
(* snapshotter ("snap"), the goroutine that shuts the HTTP server down     *)
(* ("srv") and main itself ("main").  store.finals and store.finished      *)
(* count the final snapshot Saves started and finished.                     *)

Writers == {"w1", "w2"}
Loops   == {"sym", "stress", "snap"} \cup Writers

\* a context whose Done channel never becomes ready
CtxDoneNever(cancelled) == FALSE
\* <-ctx.Done() is ready
CtxDone(cancelled) == cancelled

ShutInit ==
    /\ SimAtRest /\ DetAtRest /\ SessAtRest /\ TradeAtRest /\ CtrAtRest /\ pumps = <<>>
    /\ MktAtRest /\ ConsumerAtRest
    /\ ctx = FALSE
    /\ tasks = [t \in Loops \cup {"srv", "main"} |->
                   IF t = "stress" THEN "check"
                   ELSE IF t = "srv" THEN "wait"
                   ELSE IF t = "main" THEN "serve" ELSE "select"]
    /\ store = [open |-> TRUE, finals |-> 0, finished |-> 0]

ShutRest == <<simVars, run2, sessVars, enq, saved, ctrVars, pumps, market, consumer>>

\* the process has not exited
Running == tasks["main"] # "exited"

\* the signal goroutine: SIGINT or SIGTERM arrives and it calls cancel()
Signal ==
    /\ Running /\ ~ctx
    /\ ctx' = TRUE
    /\ UNCHANGED <<tasks, store, tradeCh, ShutRest>>

\* symbolRunner: the select takes <-ctx.Done() and returns, or takes
\* <-ticker.C; then the tick (Step, enqueueTrades, Broadcast) returns
SymbolRunner ==
    /\ Running
    /\ \/ /\ tasks["sym"] = "select" /\ CtxDone(ctx)
          /\ tasks' = [tasks EXCEPT !["sym"] = "returned"]
          /\ UNCHANGED tradeCh
       \/ /\ tasks["sym"] = "select"
          /\ tasks' = [tasks EXCEPT !["sym"] = "tick"]
          /\ UNCHANGED tradeCh
       \/ /\ tasks["sym"] = "tick"
          /\ tasks' = [tasks EXCEPT !["sym"] = "select"]
          /\ tradeCh' = TrySend(tradeCh, "sym", TradeChCap).ch
    /\ UNCHANGED <<ctx, store, ShutRest>>

\* stressRunner: the check of ctx.Done() at the top of the loop (with a
\* default case), the tick, and time.Sleep(interval)
StressRunner ==
    /\ Running
    /\ \/ /\ tasks["stress"] = "check"
          /\ tasks' = [tasks EXCEPT !["stress"] =
                          IF CtxDone(ctx) THEN "returned" ELSE "tick"]
          /\ UNCHANGED tradeCh
       \/ /\ tasks["stress"] = "tick"
          /\ tasks' = [tasks EXCEPT !["stress"] = "sleep"]
          /\ tradeCh' = TrySend(tradeCh, "stress", TradeChCap).ch
       \/ /\ tasks["stress"] = "sleep"
          /\ tasks' = [tasks EXCEPT !["stress"] = "check"]
          /\ UNCHANGED tradeCh
    /\ UNCHANGED <<ctx, store, ShutRest>>

\* tradeWriter: the select takes <-ctx.Done() and returns, or takes a record
\* of the channel; then snap.SaveTrade returns
TradeWriterLoop(w) ==
    /\ Running
    /\ \/ /\ tasks[w] = "select" /\ CtxDone(ctx)
          /\ tasks' = [tasks EXCEPT ![w] = "returned"]
          /\ UNCHANGED tradeCh
       \/ /\ tasks[w] = "select" /\ tradeCh # <<>>
          /\ tasks' = [tasks EXCEPT ![w] = "save"]
          /\ tradeCh' = Recv(tradeCh).ch
       \/ /\ tasks[w] = "save"
          /\ tasks' = [tasks EXCEPT ![w] = "select"]
          /\ UNCHANGED tradeCh
    /\ UNCHANGED <<ctx, store, ShutRest>>

\* Snapshotter.Run: the select takes <-ticker.C and Save(ctx) returns, or it
\* takes <-ctx.Done(), starts the final Save(shutdownCtx), which ends (done,
\* failed or timed out), and Run returns
SnapshotterRun ==
    /\ Running
    /\ \/ /\ tasks["snap"] = "select"
          /\ tasks' = [tasks EXCEPT !["snap"] = "save"]
          /\ UNCHANGED store
       \/ /\ tasks["snap"] = "save"
          /\ tasks' = [tasks EXCEPT !["snap"] = "select"]
          /\ UNCHANGED store
       \/ /\ tasks["snap"] = "select" /\ CtxDone(ctx)
          /\ tasks' = [tasks EXCEPT !["snap"] = "final"]
          /\ store' = [store EXCEPT !.finals = @ + 1]
       \/ /\ tasks["snap"] = "final"
          /\ tasks' = [tasks EXCEPT !["snap"] = "returned"]
          /\ store' = [store EXCEPT !.finished = @ + 1]
    /\ UNCHANGED <<ctx, tradeCh, ShutRest>>

\* the goroutine that waits for ctx.Done() and calls srv.Shutdown, upon which
\* main's srv.ListenAndServe() returns ErrServerClosed
ServerShutdown ==
    /\ Running
    /\ \/ /\ tasks["srv"] = "wait" /\ CtxDone(ctx)
          /\ tasks' = [tasks EXCEPT !["srv"] = "shutdown"]
       \/ /\ tasks["srv"] = "shutdown"
          /\ tasks' = [tasks EXCEPT !["srv"] = "returned"]
       \/ /\ tasks["main"] = "serve" /\ tasks["srv"] \in {"shutdown", "returned"}
          /\ tasks' = [tasks EXCEPT !["main"] = "stopped"]
    /\ UNCHANGED <<ctx, store, tradeCh, ShutRest>>

\* main returns: the deferred store.Close(), then the deferred cancel(), and
\* the process exits
MainReturns ==
    \/ /\ tasks["main"] = "stopped"
       /\ tasks' = [tasks EXCEPT !["main"] = "closing"]
       /\ store' = [store EXCEPT !.open = FALSE]
       /\ UNCHANGED <<ctx, tradeCh, ShutRest>>
    \/ /\ tasks["main"] = "closing"
       /\ tasks' = [tasks EXCEPT !["main"] = "exited"]
       /\ ctx' = TRUE
       /\ UNCHANGED <<store, tradeCh, ShutRest>>

\* the steps of the goroutines while main has not returned
RunningNext ==
    \/ Signal
    \/ SymbolRunner
    \/ StressRunner
    \/ \E w \in Writers : TradeWriterLoop(w)
    \/ SnapshotterRun
    \/ ServerShutdown

ShutNext == RunningNext \/ MainReturns

SpecShutdown == ShutInit /\ [][ShutNext]_vars

\* The goroutines of a process that goes on running, fairly scheduled: a
\* goroutine that can take a step takes one, and a select that finds
\* <-ctx.Done() ready again and again takes it in the end (select picks among
\* its ready cases at random).
SpecRunning ==
    /\ ShutInit /\ [][RunningNext]_vars
    /\ WF_vars(SymbolRunner) /\ WF_vars(StressRunner) /\ WF_vars(SnapshotterRun)
    /\ \A w \in Writers : WF_vars(TradeWriterLoop(w))
    /\ SF_vars(SymbolRunner /\ tasks'["sym"] = "returned")
    /\ SF_vars(SnapshotterRun /\ tasks'["snap"] = "final")
    /\ \A w \in Writers : SF_vars(TradeWriterLoop(w) /\ tasks'[w] = "returned")

C20_FinalSnapshotBeforeExit ==
    /\ store.finals <= 1
    /\ (~store.open \/ tasks["main"] = "exited") =>
          (store.finals = 1 /\ store.finished = 1)

-----------------------------------------------------------------------------
(* Claims about control frames                                              *)

\* the frames the program is to ignore: not valid JSON, an unknown action,
\* an unknown format, or only unknown tickers
Ignored(frame) ==
    \/ ~frame.json
    \/ frame.Action \notin {"subscribe", "unsubscribe", "format"}
    \/ frame.Action = "format" /\ frame.Format \notin {"binary", "json"}
    \/ /\ frame.Action \in {"subscribe", "unsubscribe"}
       /\ \A i \in 1..Len(frame.Symbols) : frame.Symbols[i] \notin DOMAIN byTicker \cup {"*"}

\* C21: a control frame that is not valid JSON, names an unknown action or an
\* unknown format, or lists only unknown tickers changes nothing of the
\* client (subscription set, all-flag, format, send queue, drop count),
\* leaves every client registered, and leaves readPump at its next read
\* with nothing for SendToClient to send.
C21_MalformedControlIgnored ==
    [][\A c \in ClientIds : \A frame \in ControlInputs :
          (Ignored(frame) /\ ReadPumpFrame(c, frame)) =>
              /\ clients' = clients
              /\ taken' = taken
              /\ c \in DOMAIN clients' /\ ctl'[c].dir = <<>>]_vars

\* C21 witness: client 2, subscribed to the first symbol in binary, changed
\* to JSON by a first frame, has had a subscribe frame of unknown tickers
\* ignored
C21_Witness ==
    /\ ctl[2].n = 2 /\ ctl[2].frame = Frame(TRUE, "subscribe", <<"ZZZ">>, "")
    /\ clients[2] = [NewClient EXCEPT !.symbols = {1}]

-----------------------------------------------------------------------------
(* engine.RNG.Gaussian and engine.MarketEngine.  A Gaussian value is kept   *)
(* as the pair of 32-bit draws (u, v) it is computed from and which of the  *)
(* two products u*s and v*s, s = sqrt(-2 ln(u^2+v^2) / (u^2+v^2)), it is.   *)

\* |x - 2^31| for a 32-bit draw x, as a 64-bit word: Float64()*2 - 1 is
\* (x - 2^31) / 2^31
Centered(x) ==
    IF x.hi >= 32768 THEN Word64((x.hi - 32768) * 65536 + x.lo)
    ELSE IF x.hi = 0 /\ x.lo = 0 THEN <<0, 0, 0, 128, 0, 0, 0, 0>>
    ELSE Word64((32767 - x.hi) * 65536 + (65536 - x.lo))

\* s > 0 && s < 1 for s = u*u + v*v:  0 < (x - 2^31)^2 + (y - 2^31)^2 < 2^62
InUnitDisc(x, y) ==
    With(<<Centered(x), Centered(y)>>, LAMBDA c :
       With(Add64(Mul64(c[1], c[1]), Mul64(c[2], c[2])), LAMBDA s :
          s[8] < 64 /\ \E k \in 1..8 : s[k] # 0))

RECURSIVE polar(_)
\* Gaussian's loop: pairs of Float64 draws until one lies in the unit disc
polar(r) ==
    With(Uint32(r), LAMBDA x : With(AfterUint32(r), LAMBDA r1 :
       With(Uint32(r1), LAMBDA y : With(AfterUint32(r1), LAMBDA r2 :
          IF InUnitDisc(x, y) THEN [rng |-> r2, u |-> x, v |-> y] ELSE polar(r2)))))

\* RNG.Gaussian by one caller: the cached spare if there is one, else a new
\* pair, of which v*s is cached and u*s returned
Gaussian(r) ==
    IF r.hasSpare THEN [rng |-> [r EXCEPT !.hasSpare = FALSE], value |-> r.spare]
    ELSE With(polar(r), LAMBDA p :
            [rng |-> [p.rng EXCEPT !.hasSpare = TRUE,
                                   !.spare = [u |-> p.u, v |-> p.v, of |-> "v"]],
             value |-> [u |-> p.u, v |-> p.v, of |-> "u"]])

\* symbol.Sectors()
Sectors == <<"Tech", "Finance", "Healthcare", "Energy", "Consumer", "Industrial",
             "Stress", "ETF">>
\* the sector of a symbol: the symbols of locate codes 1 and 2 are Tech
SectorOf(locate) == "Tech"

MaxCycles == 2   \* ticks of one symbol task in one behaviour

RECURSIVE shockLoop(_, _, _)
shockLoop(shocks, r, i) ==
    IF i > Len(Sectors) THEN [rng |-> r, sectorShocks |-> shocks]
    ELSE With(Gaussian(r), LAMBDA g :
            shockLoop([shocks EXCEPT ![Sectors[i]] = g.value], g.rng, i + 1))

\* A run: the one generator, the global counters, the price engine's sector
\* shocks, and per symbol its simulator's book, the message lists its Step
\* calls returned, the shocks its Ticks used (its price path is computed from
\* them), and its task: pc, the cycles done, the sector shock its refresh
\* wrote and the one its Tick read.

\* MarketEngine.GenerateSectorShocks called by the task of locate
GenerateSectorShocks(run, locate) ==
    With(shockLoop(run.sectorShocks, run.rng, 1), LAMBDA g :
       [run EXCEPT !.rng = g.rng, !.sectorShocks = g.sectorShocks,
                   !.tasks[locate].pc = "tick",
                   !.tasks[locate].refreshed = g.sectorShocks[SectorOf(locate)]])

\* MarketEngine.Tick(locate): the sector's shock and an idiosyncratic one
Tick(run, locate) ==
    With(Gaussian(run.rng), LAMBDA g :
       [run EXCEPT !.rng = g.rng,
                   !.sims[locate].path = Append(@, [sectorZ |-> run.sectorShocks[SectorOf(locate)],
                                                    idioZ |-> g.value]),
                   !.tasks[locate].pc = "step",
                   !.tasks[locate].read = run.sectorShocks[SectorOf(locate)]])

\* symbolRunner's sim.Step(price, 1 + OrderCount % 3); the price handed over
\* is the symbol's base price
RunnerStep(run, locate) ==
    With(Step([rng |-> run.rng, book |-> run.sims[locate].book, locateCode |-> locate,
               tickSize |-> TickSize, orderIDCounter |-> run.orderIDCounter,
               matchCounter |-> run.matchCounter, msgs |-> <<>>, audit |-> <<>>],
              RefPrice, 1 + (OrderCount(run.sims[locate].book) % 3)), LAMBDA w :
       [run EXCEPT !.rng = w.rng, !.orderIDCounter = w.orderIDCounter,
                   !.matchCounter = w.matchCounter,
                   !.sims[locate].book = w.book,
                   !.sims[locate].out = Append(@, w.msgs),
                   !.tasks[locate].pc = "refresh",
                   !.tasks[locate].cycle = @ + 1])

\* main: NewRNG(seed), the books initialized one after the other around the
\* base price, then one task per symbol
NewRun(seed) ==
    With(Initialize(NewWorld(NewRNG(seed) @@ [spare |-> 0], 1, TickSize, 0, 0), RefPrice),
         LAMBDA w1 :
    With(Initialize(NewWorld(w1.rng, 2, TickSize, w1.orderIDCounter, w1.matchCounter),
                    RefPrice), LAMBDA w2 :
       [rng |-> w2.rng, orderIDCounter |-> w2.orderIDCounter,
        matchCounter |-> w2.matchCounter,
        sectorShocks |-> [i \in {Sectors[k] : k \in 1..Len(Sectors)} |-> 0],
        sims |-> [l \in Locates |->
                    [book |-> IF l = 1 THEN w1.book ELSE w2.book, out |-> <<>>, path |-> <<>>]],
        tasks |-> [l \in Locates |-> [pc |-> "refresh", cycle |-> 0, refreshed |-> 0, read |-> 0]]]))

RECURSIVE Play(_, _)
\* the run in which the tasks of `schedule` each do a whole tick, in turn
Play(run, schedule) ==
    IF schedule = <<>> THEN run
    ELSE With(GenerateSectorShocks(run, Head(schedule)), LAMBDA r1 :
         With(Tick(r1, Head(schedule)), LAMBDA r2 :
         With(RunnerStep(r2, Head(schedule)), LAMBDA r3 : Play(r3, Tail(schedule)))))

\* market.run is the run under way; market.other holds the simulators of a
\* second run from the same seed, in which the tasks took turns
MarketInit ==
    /\ SimAtRest /\ DetAtRest /\ SessAtRest /\ TradeAtRest /\ CtrAtRest
    /\ pumps = <<>> /\ ShutAtRest /\ ConsumerAtRest
    /\ market = With(NewRun(TestSeed), LAMBDA run :
                   [run |-> run, other |-> Play(run, <<1, 2, 1, 2>>).sims])

MktRest == <<simVars, run2, sessVars, tradeVars, ctrVars, pumps, shutVars, consumer>>

MarketRefresh(l) ==
    /\ market.run.tasks[l].pc = "refresh" /\ market.run.tasks[l].cycle < MaxCycles
    /\ market' = [market EXCEPT !.run = GenerateSectorShocks(@, l)]
    /\ UNCHANGED MktRest

MarketTick(l) ==
    /\ market.run.tasks[l].pc = "tick"
    /\ market' = [market EXCEPT !.run = Tick(@, l)]
    /\ UNCHANGED MktRest

MarketStep(l) ==
    /\ market.run.tasks[l].pc = "step"
    /\ market' = [market EXCEPT !.run = RunnerStep(@, l)]
    /\ UNCHANGED MktRest

MarketNext ==
    \/ \E l \in Locates : MarketRefresh(l)
    \/ \E l \in Locates : MarketTick(l)
    \/ \E l \in Locates : MarketStep(l)

SpecMarket == MarketInit /\ [][MarketNext]_vars

\* the first n elements of a sequence
Prefix(seq, n) == SubSeq(seq, 1, n)

\* C22: two runs started with the same seed produce, for every symbol, the
\* same price path and the same sequence of order-book messages, whatever the
\* scheduling of the symbol tasks: what a symbol's task has produced in the
\* run under way is what it produced, tick for tick, in the other run.
C22_SameSeedSameStreams ==
    \A l \in Locates :
       LET mine   == market.run.sims[l]
           theirs == market.other[l]
       IN /\ mine.out = Prefix(theirs.out, Len(mine.out))
          /\ mine.path = Prefix(theirs.path, Len(mine.path))

\* C23: no other task replaces the sector shocks between a task's refresh
\* and its Tick, and two symbols of one sector that tick in the same cycle
\* read equal sector shocks.
C23_OneShockPerCycle ==
    /\ \A l \in Locates :
          market.run.tasks[l].pc = "step" =>
             market.run.tasks[l].read = market.run.tasks[l].refreshed
    /\ \A l1, l2 \in Locates :
          SectorOf(l1) = SectorOf(l2) =>
             \A k \in 1..MaxCycles :
                (k <= Len(market.run.sims[l1].path) /\ k <= Len(market.run.sims[l2].path)) =>
                   market.run.sims[l1].path[k].sectorZ = market.run.sims[l2].path[k].sectorZ

-----------------------------------------------------------------------------
(* The generator under concurrent callers.  rng.mu is the holder of the     *)
(* generator's mutex (0: nobody).  A caller's Gaussian call takes the lock  *)
(* and looks at the cache; without a spare it makes Float64 calls, each a   *)
(* Uint32 call that takes the lock, reads and advances the state; then it   *)
(* takes the lock again and stores the spare.  calls is the history: the    *)
(* Uint32 calls in the order of their critical sections, the stores of a    *)
(* spare and the returns of Gaussian.                                        *)

GaussCallers == {1, 2}
MaxGauss == 2    \* Gaussian calls of one caller in one behaviour

\* the spare of a generator that has cached none yet
NoSpare == [u |-> [hi |-> 0, lo |-> 0], v |-> [hi |-> 0, lo |-> 0], of |-> "none"]

\* the hasSpare branch that leaves the flag set
TakeSpareKeepFlag(r) == r
\* the hasSpare branch of Gaussian: r.hasSpare = false; v := r.spare
TakeSpare(r) == [r EXCEPT !.hasSpare = FALSE]

GaussInit ==
    /\ rng = NewRNG(TestSeed) @@ [spare |-> NoSpare, spareId |-> 0, mu |-> 0]
    /\ callers = [t \in GaussCallers |-> [pc |-> "idle", u |-> 0, v |-> 0, n |-> 0]]
    /\ calls = <<>>
    /\ book = <<>> /\ msgs = <<>> /\ audit = <<>> /\ last = <<>> /\ steps = 0
    /\ orderIDCounter = 0 /\ matchCounter = 0
    /\ DetAtRest /\ SessAtRest /\ TradeAtRest /\ LifeAtRest

GaussRest == <<book, orderIDCounter, matchCounter, msgs, audit, last, steps, run2,
               sessVars, tradeVars, lifeVars>>

\* caller t calls Gaussian()
GaussCall(t) ==
    /\ callers[t].pc = "idle" /\ callers[t].n < MaxGauss
    /\ callers' = [callers EXCEPT ![t].pc = "lock", ![t].n = @ + 1]
    /\ UNCHANGED <<rng, calls, GaussRest>>

\* r.mu.Lock() at the head of Gaussian, before a Uint32 or before the store
GaussLock(t) ==
    /\ callers[t].pc \in {"lock", "u", "v", "lock2"} /\ rng.mu = 0
    /\ rng' = [rng EXCEPT !.mu = t]
    /\ callers' = [callers EXCEPT ![t].pc =
                      CASE @ = "lock"  -> "check"
                        [] @ = "u"     -> "uLocked"
                        [] @ = "v"     -> "vLocked"
                        [] @ = "lock2" -> "store"]
    /\ UNCHANGED <<calls, GaussRest>>

\* under the lock: with a spare, clear the flag, take the spare, unlock and
\* return it; without one, unlock and go on to the draws
GaussCheck(t) ==
    /\ callers[t].pc = "check"
    /\ IF rng.hasSpare
       THEN /\ rng' = [TakeSpare(rng) EXCEPT !.mu = 0]
            /\ calls' = Append(calls, [kind |-> "gauss", caller |-> t, value |-> rng.spare,
                                       cached |-> TRUE, id |-> rng.spareId])
            /\ callers' = [callers EXCEPT ![t].pc = "idle"]
       ELSE /\ rng' = [rng EXCEPT !.mu = 0]
            /\ callers' = [callers EXCEPT ![t].pc = "u"]
            /\ UNCHANGED calls
    /\ UNCHANGED GaussRest

\* Uint32 under the lock: old := r.state; r.step(); unlock; the output of
\* old.  After the second draw of a pair the pair is kept when it lies in
\* the unit disc and drawn again when not.
GaussUint32(t) ==
    /\ callers[t].pc \in {"uLocked", "vLocked"}
    /\ LET x  == Uint32(rng)
           r1 == AfterUint32(rng)
       IN /\ rng' = [r1 EXCEPT !.mu = 0]
          /\ calls' = Append(calls, [kind |-> "u32", caller |-> t, state |-> rng.state,
                                     next |-> r1.state, out |-> x])
          /\ callers' = [callers EXCEPT ![t] =
                IF @.pc = "uLocked" THEN [@ EXCEPT !.pc = "v", !.u = x]
                ELSE [@ EXCEPT !.v = x,
                               !.pc = IF InUnitDisc(callers[t].u, x) THEN "lock2" ELSE "u"]]
    /\ UNCHANGED GaussRest

\* under the lock: r.spare = v * s; r.hasSpare = true; unlock; return u * s
GaussStore(t) ==
    /\ callers[t].pc = "store"
    /\ rng' = [rng EXCEPT !.spare = [u |-> callers[t].u, v |-> callers[t].v, of |-> "v"],
                          !.spareId = Len(calls) + 1,
                          !.hasSpare = TRUE, !.mu = 0]
    /\ calls' = calls \o
                  << [kind |-> "store", caller |-> t, id |-> Len(calls) + 1],
                     [kind |-> "gauss", caller |-> t, cached |-> FALSE, id |-> 0,
                      value |-> [u |-> callers[t].u, v |-> callers[t].v, of |-> "u"]] >>
    /\ callers' = [callers EXCEPT ![t].pc = "idle"]
    /\ UNCHANGED GaussRest

GaussNext ==
    \/ \E t \in GaussCallers : GaussCall(t)
    \/ \E t \in GaussCallers : GaussLock(t)
    \/ \E t \in GaussCallers : GaussCheck(t)
    \/ \E t \in GaussCallers : GaussUint32(t)
    \/ \E t \in GaussCallers : GaussStore(t)

SpecGauss == GaussInit /\ [][GaussNext]_vars

\* the Uint32 calls of the history, in the order of their critical sections
Uint32Calls == SelectSeq(calls, LAMBDA c : c.kind = "u32")
\* the returns of Gaussian that handed out a cached spare
SpareReturns == SelectSeq(calls, LAMBDA c : c.kind = "gauss" /\ c.cached)
\* the callers inside a critical section of the generator
Holders == {t \in GaussCallers : callers[t].pc \in {"check", "uLocked", "vLocked", "store"}}

\* the history of a generator whose calls are atomic
CallsAtomic ==
    /\ \A i, j \in 1..Len(Uint32Calls) :
          i # j => Uint32Calls[i].state # Uint32Calls[j].state
    /\ \A i \in 1..Len(Uint32Calls) :
          /\ Uint32Calls[i].out = PCGOutput(Uint32Calls[i].state)
          /\ Uint32Calls[i].state = IF i = 1 THEN NewRNG(TestSeed).state
                                    ELSE Uint32Calls[i - 1].next
          /\ i = Len(Uint32Calls) => rng.state = Uint32Calls[i].next
    /\ Cardinality(Holders) <= 1
    /\ \A t \in Holders : rng.mu = t
    /\ \A i \in 1..Len(SpareReturns) :
          /\ SpareReturns[i].id \in 1..Len(calls)
          /\ calls[SpareReturns[i].id].kind = "store"
          /\ \A j \in 1..Len(SpareReturns) : i # j => SpareReturns[i].id # SpareReturns[j].id
    /\ rng.hasSpare => rng.spareId \in 1..Len(calls)

\* C24: with concurrent callers (a) no two Uint32 calls return the output of
\* the same state and no advance is lost: each call starts from the state
\* the call before it left, and the generator holds the state the last call
\* left; (b) at most one caller is inside a critical section, and it holds
\* the lock; (c) a spare that is returned was stored, with its flag set, and
\* no stored spare is returned twice; (d) the spare and its flag change only
\* in a step of the caller that holds the lock.
C24_GeneratorCallsAtomic ==
    /\ []CallsAtomic
    /\ [][(rng'.spare # rng.spare \/ rng'.hasSpare # rng.hasSpare) =>
             \E t \in GaussCallers : rng.mu = t /\ callers[t].pc \in {"check", "store"}
                                     /\ callers'[t].pc = "idle"]_vars

\* C24 witness: both callers drew pairs at the same time, their Uint32 calls
\* interleaved, and a caller was handed the spare the other one stored
C24_Witness ==
    /\ \E i \in 1..(Len(Uint32Calls) - 2) :
          /\ Uint32Calls[i].caller # Uint32Calls[i + 1].caller
          /\ Uint32Calls[i + 1].caller # Uint32Calls[i + 2].caller
    /\ \E i \in 1..Len(SpareReturns) :
          calls[SpareReturns[i].id].caller # SpareReturns[i].caller

-----------------------------------------------------------------------------
(* Saving and restoring the generator                                       *)

MaxDraws == 3    \* Uint32 calls before the capture, after it, and after the restore

\* a 64-bit word (least significant byte first) as binary.BigEndian writes it,
\* and the word binary.BigEndian reads from 8 bytes
BigEndian(w) == [i \in 1..8 |-> w[9 - i]]

\* RNG.State
State(r) == [state |-> r.state, inc |-> r.inc]
\* RNG.RestoreState
RestoreState(r, state, inc) == [r EXCEPT !.state = state, !.inc = inc, !.hasSpare = FALSE]

\* StateBytes that writes the two words least significant byte first
StateBytesLittleEndian(r) == State(r).state \o State(r).inc
\* RNG.StateBytes: 16 bytes, the state then the increment, big-endian
StateBytes(r) == BigEndian(State(r).state) \o BigEndian(State(r).inc)

\* RNG.RestoreStateBytes: nothing for fewer than 16 bytes
RestoreStateBytes(r, b) ==
    IF Len(b) < 16 THEN r
    ELSE RestoreState(r, BigEndian(SubSeq(b, 1, 8)), BigEndian(SubSeq(b, 9, 16)))

\* The generator of a seed; last holds the bytes captured and how many of
\* them the last restore was given, msgs the Uint32 outputs since the
\* capture, audit the outputs since the restore.
SaveInit ==
    /\ \E seed \in SeedInputs : rng = NewRNG(seed) @@ [spare |-> NoSpare]
    /\ last = [op |-> "none", bytes |-> <<>>, arg |-> 0]
    /\ msgs = <<>> /\ audit = <<>> /\ steps = 0
    /\ book = <<>> /\ orderIDCounter = 0 /\ matchCounter = 0
    /\ DetAtRest /\ SessAtRest /\ TradeAtRest /\ CtrAtRest /\ LifeAtRest

SaveRest == <<book, orderIDCounter, matchCounter, run2, sessVars, tradeVars, ctrVars, lifeVars>>

\* a Uint32 call
SaveDraw ==
    /\ steps < MaxDraws /\ steps' = steps + 1
    /\ rng' = AfterUint32(rng)
    /\ msgs' = IF last.op = "captured" THEN Append(msgs, Uint32(rng)) ELSE msgs
    /\ audit' = IF last.op = "restored" THEN Append(audit, Uint32(rng)) ELSE audit
    /\ UNCHANGED <<last, SaveRest>>

\* a Gaussian call before the capture
SaveGaussian ==
    /\ last.op = "none" /\ steps < MaxDraws /\ steps' = steps + 1
    /\ rng' = Gaussian(rng).rng
    /\ UNCHANGED <<last, msgs, audit, SaveRest>>

\* b := StateBytes()
SaveCapture ==
    /\ last.op = "none"
    /\ last' = [op |-> "captured", bytes |-> StateBytes(rng), arg |-> 0]
    /\ steps' = 0
    /\ UNCHANGED <<rng, msgs, audit, SaveRest>>

\* RestoreStateBytes with the first n of the bytes captured
SaveRestore(n) ==
    /\ last.op = "captured"
    /\ rng' = RestoreStateBytes(rng, SubSeq(last.bytes, 1, n))
    /\ last' = [last EXCEPT !.op = IF n < 16 THEN @ ELSE "restored", !.arg = n]
    /\ steps' = IF n < 16 THEN steps ELSE 0
    /\ UNCHANGED <<msgs, audit, SaveRest>>

SaveNext ==
    \/ SaveDraw
    \/ SaveGaussian
    \/ SaveCapture
    \/ \E n \in {0, 3, 15, 16} : SaveRestore(n)

SpecSave == SaveInit /\ [][SaveNext]_vars

\* C25: StateBytes() is 16 bytes; after RestoreStateBytes(b) the Uint32
\* outputs are, one for one, those the generator gave from the capture on;
\* RestoreStateBytes with fewer than 16 bytes leaves the generator as it is.
C25_StateBytesRoundTrip ==
    /\ [](last.op # "none" => Len(last.bytes) = 16)
    /\ [](\A i \in 1..Len(audit) : i <= Len(msgs) => audit[i] = msgs[i])
    /\ [][\A n \in {0, 3, 15} : SaveRestore(n) => rng' = rng]_vars

\* C25 witness: bytes captured, three outputs drawn, the bytes restored and
\* the same three outputs drawn again
C25_Witness ==
    /\ last.op = "restored" /\ Len(msgs) = MaxDraws /\ audit = msgs
    /\ msgs[1] # msgs[2] /\ msgs[2] # msgs[3]

-----------------------------------------------------------------------------
(* engine.StressController.  Intensity is in thousandths.  What a Tick      *)
(* takes from outside are its inputs: raw, the value of sineComponent +     *)
(* randomWalk (the sine of the time parameter and the Gaussian draws),      *)
(* spike, whether the Float64 draw fell below 0.001, now, the reading of    *)
(* the clock (time.Now(), in seconds since the program started), and draw,  *)
(* the Uint32 draw of randomDuration.  Intervals are in ms, phase           *)
(* durations in seconds.                                                    *)

PhaseCalm   == 0
PhaseActive == 1
PhaseBurst  == 2

MaxStressTicks == 3   \* Tick calls in one behaviour

\* DefaultStressConfig, and a configuration of the flags with a zero range
DefaultStressConfig ==
    [CalmMinMs |-> 10, CalmMaxMs |-> 50, ActiveMinMs |-> 2, ActiveMaxMs |-> 10,
     BurstMinMs |-> 1, BurstMaxMs |-> 2]
StressConfigs ==
    { DefaultStressConfig,
      [CalmMinMs |-> 0, CalmMaxMs |-> 1, ActiveMinMs |-> 5, ActiveMaxMs |-> 2,
       BurstMinMs |-> 0, BurstMaxMs |-> 0] }

\* values of sineComponent + randomWalk, in thousandths
RawInputs == {-500, 0, 150, 299, 300, 500, 699, 700, 850, 999, 1000, 1400}

\* readings the clock advances by between two calls, and draws of
\* randomDuration
ClockSteps    == {5, 30, 120}
DurationDraws == {0, 90}

\* StressController.randomDuration: IntRange(minSec, maxSec) seconds
randomDuration(minSec, maxSec, draw) ==
    IF minSec >= maxSec THEN minSec ELSE minSec + (draw % (maxSec - minSec + 1))

\* NewStressController, called at clock reading now
NewStressController(cfg, now, draw) ==
    [config |-> cfg, phase |-> PhaseCalm, phaseStart |-> now,
     phaseDuration |-> randomDuration(30, 120, draw), intensity |-> 0,
     interval |-> 0, numActions |-> 0, ticks |-> 0, now |-> now]

\* the clamp of Tick without its upper bound
ClampBelow(x) == IF x < 0 THEN 0 ELSE x
\* if intensity < 0 then 0; if intensity > 1 then 1
Clamp(x) == IF x < 0 THEN 0 ELSE IF x > 1000 THEN 1000 ELSE x

\* the conversion of a float n/1000 to an integer: toward zero
Truncate(n) == IF n >= 0 THEN n \div 1000 ELSE -((-n) \div 1000)

\* updatePhase with the thresholds on the other side
updatePhaseInclusive(sc, draw) ==
    IF sc.intensity <= 300
    THEN [sc EXCEPT !.phase = PhaseCalm, !.phaseDuration = randomDuration(30, 120, draw)]
    ELSE IF sc.intensity <= 700
    THEN [sc EXCEPT !.phase = PhaseActive, !.phaseDuration = randomDuration(10, 60, draw)]
    ELSE [sc EXCEPT !.phase = PhaseBurst, !.phaseDuration = randomDuration(5, 30, draw)]

\* StressController.updatePhase
updatePhase(sc, draw) ==
    IF sc.intensity < 300
    THEN [sc EXCEPT !.phase = PhaseCalm, !.phaseDuration = randomDuration(30, 120, draw)]
    ELSE IF sc.intensity < 700
    THEN [sc EXCEPT !.phase = PhaseActive, !.phaseDuration = randomDuration(10, 60, draw)]
    ELSE [sc EXCEPT !.phase = PhaseBurst, !.phaseDuration = randomDuration(5, 30, draw)]

\* StressController.Tick
StressTick(sc, raw, spike, now, draw) ==
    LET sc1 == [sc EXCEPT !.intensity = IF spike THEN 1000 ELSE Clamp(raw),
                          !.now = now]
        elapsed == now - sc.phaseStart
        sc2 == IF elapsed >= sc.phaseDuration
               THEN updatePhase([sc1 EXCEPT !.phaseStart = now], draw)
               ELSE sc1
        i   == sc2.intensity
        cfg == sc2.config
        minMs == CASE sc2.phase = PhaseCalm   -> cfg.CalmMinMs
                   [] sc2.phase = PhaseActive -> cfg.ActiveMinMs
                   [] sc2.phase = PhaseBurst  -> cfg.BurstMinMs
        maxMs == CASE sc2.phase = PhaseCalm   -> cfg.CalmMaxMs
                   [] sc2.phase = PhaseActive -> cfg.ActiveMaxMs
                   [] sc2.phase = PhaseBurst  -> cfg.BurstMaxMs
        ms    == Truncate(maxMs * 1000 - (maxMs - minMs) * i)
        n     == CASE sc2.phase = PhaseCalm   -> 1 + Truncate(i * 1)
                   [] sc2.phase = PhaseActive -> 3 + Truncate(i * 2)
                   [] sc2.phase = PhaseBurst  -> 5 + Truncate(i * 5)
    IN [sc2 EXCEPT !.interval = IF ms < 1 THEN 1 ELSE ms,
                   !.numActions = n,
                   !.ticks = @ + 1]

StressInit ==
    /\ \E cfg \in StressConfigs, draw \in DurationDraws :
          last = NewStressController(cfg, 0, draw)
    /\ steps = 0
    /\ rng = <<>> /\ book = <<>> /\ msgs = <<>> /\ audit = <<>>
    /\ orderIDCounter = 0 /\ matchCounter = 0
    /\ DetAtRest /\ SessAtRest /\ TradeAtRest /\ CtrAtRest /\ LifeAtRest

\* stressRunner calls ctrl.Tick()
StressTickCall(raw, spike, now, draw) ==
    /\ steps < MaxStressTicks /\ steps' = steps + 1
    /\ last' = StressTick(last, raw, spike, now, draw)
    /\ UNCHANGED <<rng, book, orderIDCounter, matchCounter, msgs, audit, run2,
                   sessVars, tradeVars, ctrVars, lifeVars>>

StressNext ==
    \E raw \in RawInputs, spike \in BOOLEAN, dt \in ClockSteps, draw \in DurationDraws :
       StressTickCall(raw, spike, last.now + dt, draw)

SpecStress == StressInit /\ [][StressNext]_vars

\* C26: after every Tick, intensity lies in [0,1], the interval returned is
\* at least 1 ms, and the action count returned lies in the range of the
\* phase current after the tick: 1..2 calm, 3..5 active, 5..10 burst.
C26_StressTickBounds ==
    last.ticks > 0 =>
       /\ last.intensity >= 0 /\ last.intensity <= 1000
       /\ last.interval >= 1
       /\ last.phase = PhaseCalm   => last.numActions \in 1..2
       /\ last.phase = PhaseActive => last.numActions \in 3..5
       /\ last.phase = PhaseBurst  => last.numActions \in 5..10

\* C26 witness: with a burst range of zero, a second Tick at full intensity
\* in burst returned 10 actions and the floor of 1 ms
C26_Witness ==
    /\ last.ticks = 2 /\ last.phase = PhaseBurst /\ last.intensity = 1000
    /\ last.numActions = 10 /\ last.interval = 1
    /\ last.config # DefaultStressConfig

-----------------------------------------------------------------------------
(* itch: Price4 and the binary and JSON encoders.  Here a price is a        *)
(* number of hundred-thousandths, so that a price between two wire values   *)
(* can be written; a byte is a number 0..255 or a character.                *)

\* Price4: uint32(price * 10000), the conversion cutting the fraction off
\* (prices in range: below 2^31 hundred-thousandths)
Price4(price) == price \div 10
\* Price4ToFloat: float64(p) / 10000, in hundred-thousandths
Price4ToFloat(p) == p * 10

RECURSIVE PutUint(_, _)
RECURSIVE PutUintLittleEndian(_, _)
\* the bytes of n, least significant first
PutUintLittleEndian(n, width) ==
    IF width = 0 THEN <<>> ELSE <<n % 256>> \o PutUintLittleEndian(n \div 256, width - 1)
\* binary.BigEndian.PutUint16 / PutUint32 / PutUint64 and putTimestamp: the
\* bytes of n, most significant first
PutUint(n, width) ==
    IF width = 0 THEN <<>> ELSE PutUint(n \div 256, width - 1) \o <<n % 256>>

\* PadStock / PadMPID: the characters, then spaces up to the width
Pad(chars, width) == [i \in 1..width |-> IF i <= Len(chars) THEN chars[i] ELSE " "]

\* copy(buf[at:], bytes) on a buffer
Put(buf, at, bytes) ==
    [i \in 1..Len(buf) |-> IF i > at /\ i <= at + Len(bytes) THEN bytes[i - at] ELSE buf[i]]

\* make([]byte, n), then the fields every message starts with
Header(m, n) ==
    Put(Put(Put(Put([i \in 1..n |-> 0], 0, <<m.Type>>), 1, PutUint(m.StockLocate, 2)),
            3, PutUint(m.TrackingNum, 2)), 5, PutUint(m.Timestamp, 6))

\* encodeSystemEvent ... encodeTrade: the body of a message of one of the
\* ten types
encodeBody(m) ==
    CASE m.Type = "S" -> Put(Header(m, 12), 11, <<m.EventCode>>)
      [] m.Type = "R" ->
            Put(Put(Put(Put(Put(Put(Header(m, 39), 11, Pad(m.Stock, 8)),
                                19, <<m.MarketCategory, m.FinancialStatus>>),
                            21, PutUint(m.RoundLotSize, 4)),
                        25, <<m.RoundLotsOnly, m.IssueClassification>> \o m.IssueSubType),
                    29, <<m.Authenticity, m.ShortSaleThreshold, m.IPOFlag,
                          m.LULDRefPriceTier, m.ETPFlag>>),
                34, PutUint(m.ETPLeverageFactor, 4) \o <<m.InverseIndicator>>)
      [] m.Type = "H" ->
            Put(Put(Put(Header(m, 25), 11, Pad(m.Stock, 8)), 19, <<m.TradingState, m.Reserved>>),
                21, <<" ", " ", " ", " ">>)
      [] m.Type = "A" ->
            Put(Put(Put(Put(Put(Header(m, 36), 11, PutUint(m.OrderRef, 8)), 19, <<m.Side>>),
                        20, PutUint(m.Shares, 4)), 24, Pad(m.Stock, 8)),
                32, PutUint(Price4(m.Price), 4))
      [] m.Type = "F" ->
            Put(Put(Put(Put(Put(Put(Header(m, 40), 11, PutUint(m.OrderRef, 8)), 19, <<m.Side>>),
                            20, PutUint(m.Shares, 4)), 24, Pad(m.Stock, 8)),
                    32, PutUint(Price4(m.Price), 4)), 36, Pad(m.MPID, 4))
      [] m.Type = "E" ->
            Put(Put(Put(Header(m, 31), 11, PutUint(m.OrderRef, 8)), 19, PutUint(m.Shares, 4)),
                23, PutUint(m.MatchNumber, 8))
      [] m.Type = "X" ->
            Put(Put(Header(m, 23), 11, PutUint(m.OrderRef, 8)), 19, PutUint(m.Shares, 4))
      [] m.Type = "D" -> Put(Header(m, 19), 11, PutUint(m.OrderRef, 8))
      [] m.Type = "U" ->
            Put(Put(Put(Put(Header(m, 35), 11, PutUint(m.OrigOrderRef, 8)),
                        19, PutUint(m.OrderRef, 8)), 27, PutUint(m.Shares, 4)),
                31, PutUint(Price4(m.Price), 4))
      [] m.Type = "P" ->
            Put(Put(Put(Put(Put(Put(Header(m, 44), 11, PutUint(m.OrderRef, 8)), 19, <<m.Side>>),
                            20, PutUint(m.Shares, 4)), 24, Pad(m.Stock, 8)),
                    32, PutUint(Price4(m.Price), 4)), 36, PutUint(m.MatchNumber, 8))

\* EncodeBinary: nil for a type without encoder, else the body behind its
\* length in two bytes
EncodeBinary(m) ==
    IF m.Type \notin EncodableTypes THEN [nil |-> TRUE, frame |-> <<>>]
    ELSE With(encodeBody(m), LAMBDA body :
            [nil |-> FALSE, frame |-> PutUint(Len(body), 2) \o body])

\* EncodeJSON: an error when msgToMap has no case for the type
EncodeJSON(m) ==
    IF m.Type \notin EncodableTypes THEN [err |-> TRUE, obj |-> <<>>]
    ELSE [err |-> FALSE, obj |-> [type |-> m.Type, stockLocate |-> m.StockLocate]]

\* messages to encode: every type and one that is none, locate codes on
\* both sides of a byte, prices on and off the wire's grid
EncodeInputs ==
    { [Type |-> t, StockLocate |-> l, TrackingNum |-> 0, Timestamp |-> 123456,
       EventCode |-> "O", Stock |-> <<"N", "E", "X", "O">>, OrderRef |-> ref,
       OrigOrderRef |-> 99, Side |-> "B", Shares |-> 500, Price |-> 12550000,
       MatchNumber |-> 7, MPID |-> <<"G", "S">>,
       MarketCategory |-> "Q", FinancialStatus |-> "N", RoundLotSize |-> 100,
       RoundLotsOnly |-> "N", IssueClassification |-> "C", IssueSubType |-> <<"Z", " ">>,
       Authenticity |-> "P", ShortSaleThreshold |-> "N", IPOFlag |-> " ",
       LULDRefPriceTier |-> "1", ETPFlag |-> "N", ETPLeverageFactor |-> 0,
       InverseIndicator |-> "N", TradingState |-> "T", Reserved |-> " "] :
         t \in EncodableTypes \cup {"Z"}, l \in {0, 1, 258, 65535}, ref \in {100, 70000} }
PriceInputs == 0..60 \cup {9999000, 12550000, 12550004, 12550005, 12550009}

ItchInit ==
    /\ last = [op |-> "none", arg |-> 0, binary |-> <<>>, json |-> <<>>, result |-> 0]
    /\ steps = 0
    /\ rng = <<>> /\ book = <<>> /\ msgs = <<>> /\ audit = <<>>
    /\ orderIDCounter = 0 /\ matchCounter = 0
    /\ DetAtRest /\ SessAtRest /\ TradeAtRest /\ CtrAtRest /\ LifeAtRest

ItchRest == <<rng, book, orderIDCounter, matchCounter, msgs, audit, steps, run2,
              sessVars, tradeVars, ctrVars, lifeVars>>

\* EncodeBinary(m) and EncodeJSON(m)
EncodeCall(m) ==
    /\ last' = [op |-> "encode", arg |-> m, binary |-> EncodeBinary(m),
                json |-> EncodeJSON(m), result |-> 0]
    /\ UNCHANGED ItchRest

\* Price4(price)
Price4Call(price) ==
    /\ last' = [op |-> "Price4", arg |-> price, binary |-> <<>>, json |-> <<>>,
                result |-> Price4(price)]
    /\ UNCHANGED ItchRest

ItchNext ==
    \/ \E m \in EncodeInputs : EncodeCall(m)
    \/ \E price \in PriceInputs : Price4Call(price)

SpecItch == ItchInit /\ [][ItchNext]_vars

\* the body lengths of the ten message types
BodyLength(type) ==
    CASE type = "S" -> 12 [] type = "R" -> 39 [] type = "H" -> 25 [] type = "A" -> 36
      [] type = "F" -> 40 [] type = "E" -> 31 [] type = "X" -> 23 [] type = "D" -> 19
      [] type = "U" -> 35 [] type = "P" -> 44

\* C27: for each of the ten types EncodeBinary returns a frame whose first two
\* bytes hold the body's length big-endian, whose body has the length of its
\* type, starts with the type code and goes on with the locate code
\* big-endian; for any other type EncodeBinary returns nothing and EncodeJSON
\* an error.
C27_BinaryFrameLayout ==
    last.op = "encode" =>
       LET m     == last.arg
           frame == last.binary.frame
       IN IF m.Type \in {"S", "R", "H", "A", "F", "E", "X", "D", "U", "P"}
          THEN /\ ~last.binary.nil /\ ~last.json.err
               /\ Len(frame) = 2 + BodyLength(m.Type)
               /\ frame[1] = 0 /\ frame[2] = BodyLength(m.Type)
               /\ frame[3] = m.Type
               /\ frame[4] = m.StockLocate \div 256 /\ frame[5] = m.StockLocate % 256
          ELSE last.binary.nil /\ last.json.err

\* C27 witness: a trade message of locate code 258 was encoded
C27_Witness ==
    /\ last.op = "encode" /\ last.arg.Type = "P" /\ last.arg.StockLocate = 258
    /\ Len(last.binary.frame) = 46 /\ last.binary.frame[4] = 1 /\ last.binary.frame[5] = 2

\* C28: Price4(p) is p times 10000 rounded to the nearest integer, and
\* Price4ToFloat(Price4(p)) differs from p by at most 0.00005.
C28_Price4Rounds ==
    last.op = "Price4" =>
       /\ last.result = (last.arg + 5) \div 10
       /\ Price4ToFloat(last.result) - last.arg <= 5
       /\ last.arg - Price4ToFloat(last.result) <= 5

-----------------------------------------------------------------------------
(* Bounded draws.  Go's int has 64 bits on the platforms the server is      *)
(* built for, and Intn converts its bound with uint32(n): a bound is given  *)
(* here as n = top * 2^32 + low with 0 <= low < 2^31, of which uint32(n)    *)
(* keeps low.                                                                *)

MaxBounded == 3   \* calls in one behaviour

\* RNG.Intn(top * 2^32 + low): 0 for n <= 0; else Uint32() % uint32(n),
\* which panics (integer divide by zero) when uint32(n) is 0
IntnWide(r, top, low) ==
    IF top < 0 \/ (top = 0 /\ low <= 0) THEN [panics |-> FALSE, fails |-> FALSE, value |-> 0, rng |-> r]
    ELSE IF low = 0 THEN [panics |-> TRUE, fails |-> FALSE, value |-> 0, rng |-> AfterUint32(r)]
    ELSE [panics |-> FALSE, fails |-> FALSE, value |-> Intn(r, low), rng |-> AfterIntn(r, low)]

IntnInputs == {<<-1, 0>>, <<0, -5>>, <<0, 0>>, <<0, 1>>, <<0, 10>>, <<1, 0>>, <<1, 6>>}
IntRangeInputs == {<<7, 7>>, <<10, 5>>, <<5, 15>>, <<-2, 2>>}
WeightInputs == {<<0, 0, 100>>, <<100, 0>>, <<0, 50, 0, 50>>, actionWeights}

BoundedInit ==
    /\ \E seed \in SeedInputs : rng = NewRNG(seed)
    /\ last = [op |-> "none", arg |-> <<>>, result |-> 0, panics |-> FALSE, fails |-> FALSE]
    /\ steps = 0
    /\ book = <<>> /\ msgs = <<>> /\ audit = <<>>
    /\ orderIDCounter = 0 /\ matchCounter = 0
    /\ DetAtRest /\ SessAtRest /\ TradeAtRest /\ CtrAtRest /\ LifeAtRest

BoundedRest == <<book, orderIDCounter, matchCounter, msgs, audit, run2,
                 sessVars, tradeVars, ctrVars, lifeVars>>

IntnCall(top, low) ==
    /\ steps < MaxBounded /\ steps' = steps + 1
    /\ LET r == IntnWide(rng, top, low)
       IN /\ rng' = r.rng
          /\ last' = [op |-> "Intn", arg |-> <<top, low>>, result |-> r.value,
                      panics |-> r.panics, fails |-> r.fails]
    /\ UNCHANGED BoundedRest

IntRangeCall(min, max) ==
    /\ steps < MaxBounded /\ steps' = steps + 1
    /\ rng' = AfterIntRange(rng, min, max)
    /\ last' = [op |-> "IntRange", arg |-> <<min, max>>, result |-> IntRange(rng, min, max),
                panics |-> FALSE, fails |-> FALSE]
    /\ UNCHANGED BoundedRest

WeightedPickCall(weights) ==
    /\ steps < MaxBounded /\ steps' = steps + 1
    /\ rng' = AfterUint32(rng)
    /\ last' = [op |-> "WeightedPick", arg |-> weights, result |-> WeightedPick(rng, weights),
                panics |-> FALSE, fails |-> FALSE]
    /\ UNCHANGED BoundedRest

BoundedNext ==
    \/ \E n \in IntnInputs : IntnCall(n[1], n[2])
    \/ \E b \in IntRangeInputs : IntRangeCall(b[1], b[2])
    \/ \E weights \in WeightInputs : WeightedPickCall(weights)

SpecBounded == BoundedInit /\ [][BoundedNext]_vars

\* C29: Intn(n) returns 0 for every n <= 0 and a value in [0,n) for every
\* n > 0; IntRange(min,max) returns min when min >= max and a value in
\* [min,max] otherwise; WeightedPick over weights of which one is positive
\* returns an index in [0,len) whose weight is positive.
C29_BoundedDrawsInRange ==
    /\ last.op = "Intn" =>
          LET top == last.arg[1]
              low == last.arg[2]
          IN /\ ~last.panics
             /\ (top < 0 \/ (top = 0 /\ low <= 0)) => last.result = 0
             /\ (top > 0 \/ (top = 0 /\ low > 0)) =>
                   last.result >= 0 /\ (top > 0 \/ last.result < low)
    /\ last.op = "IntRange" =>
          LET min == last.arg[1]
              max == last.arg[2]
          IN IF min >= max THEN last.result = min
             ELSE last.result >= min /\ last.result <= max
    /\ last.op = "WeightedPick" =>
          /\ last.result \in 0..(Len(last.arg) - 1)
          /\ last.arg[last.result + 1] > 0

\* C30: Intn(0) fails with an InvalidBound error instead of returning a value.
C30_IntnZeroFails ==
    (last.op = "Intn" /\ last.arg = <<0, 0>>) => last.fails

-----------------------------------------------------------------------------
(* Claims about the order of the price levels                                *)

\* the prices of the levels fall (descending) or rise strictly along the side
StrictlyOrdered(levels, descending) ==
    \A i \in 1..(Len(levels) - 1) :
        IF descending THEN levels[i].Price > levels[i + 1].Price
                      ELSE levels[i].Price < levels[i + 1].Price

\* the levels of a side, as a set
LevelSet(levels) == {levels[i] : i \in 1..Len(levels)}

\* the levels a side holds after order o is added to it: o goes behind the
\* orders of the level at its price, or makes a level of its own; of eleven
\* levels the one with the worst price goes
LevelsWith(levels, o, descending) ==
    IF \E l \in LevelSet(levels) : l.Price = o.Price
    THEN {IF l.Price = o.Price THEN [l EXCEPT !.Orders = Append(@, o)] ELSE l :
             l \in LevelSet(levels)}
    ELSE LET all   == LevelSet(levels) \cup {[Price |-> o.Price, Orders |-> <<o>>]}
             worst == CHOOSE l \in all : \A k \in all :
                         IF descending THEN l.Price <= k.Price ELSE l.Price >= k.Price
         IN IF Cardinality(all) > MaxLevels THEN all \ {worst} ELSE all

\* C31: after every add (AddOrder or RestoreOrder) the bid levels are in
\* strictly decreasing and the ask levels in strictly increasing price order,
\* so no price is twice on a side; the added order is the last of the level
\* at its price, the other orders keep their places; and an add that makes an
\* 11th level on a side discards exactly the level with the worst price on
\* that side (lowest bid, highest ask), be it the level of the order added.
C31_LevelsSortedWorstTrimmed ==
    [][(last'.op \in {"add", "restore"} /\ steps' = steps + 1) =>
          LET o == book'.orderMap[last'.id]
          IN /\ StrictlyOrdered(book'.Bids, TRUE)
             /\ StrictlyOrdered(book'.Asks, FALSE)
             /\ IF o.Side = SideBuy
                THEN /\ LevelSet(book'.Bids) = LevelsWith(book.Bids, o, TRUE)
                     /\ book'.Asks = book.Asks
                ELSE /\ LevelSet(book'.Asks) = LevelsWith(book.Asks, o, FALSE)
                     /\ book'.Bids = book.Bids]_vars

\* C31 witness: an add above the best bid met a full bid side: the order
\* rests alone on the new first level, the side still has MaxLevels levels,
\* falling in price
C31_Witness ==
    /\ last.op = "add" /\ Len(book.Bids) = MaxLevels
    /\ book.Bids[1].Price = last.arg
    /\ Len(book.Bids[1].Orders) = 1 /\ book.Bids[1].Orders[1].ID = last.id
    /\ last.arg = RefPrice + 11 * TickSize
    /\ StrictlyOrdered(book.Bids, TRUE)

-----------------------------------------------------------------------------
(* Claims about the trade action                                            *)

\* the order a trade with this aggressor side is to hit: on the opposite
\* side, at the best price (highest bid, lowest ask), the order added first
\* (ids are handed out in the order of the adds)
IsVictim(b, aggressor, o) ==
    LET levels == IF aggressor = SideBuy THEN b.Asks ELSE b.Bids
        resting == AllLevelOrders(levels)
        at      == {i \in 1..Len(resting) : resting[i].Price = o.Price}
    IN /\ \E i \in 1..Len(resting) : resting[i] = o
       /\ o.Side = IF aggressor = SideBuy THEN SideSell ELSE SideBuy
       /\ \A i \in 1..Len(resting) :
             IF aggressor = SideBuy THEN o.Price <= resting[i].Price
                                    ELSE o.Price >= resting[i].Price
       /\ \A i \in at : o.ID <= resting[i].ID

-----------------------------------------------------------------------------
(* Claims about the phases of the stress controller                         *)

\* the seconds a phase may be given to last
PhaseSeconds(phase) ==
    CASE phase = PhaseCalm   -> 30..120
      [] phase = PhaseActive -> 10..60
      [] phase = PhaseBurst  -> 5..30

\* C33: the controller starts in calm.  A Tick at which the time since the
\* phase start is at least the phase's duration sets the phase by the
\* intensity of that Tick (calm below 0.3, active from 0.3 and below 0.7,
\* burst from 0.7), sets the phase start to the time of the Tick and draws a
\* duration of 30..120 s (calm), 10..60 s (active) or 5..30 s (burst); every
\* other Tick leaves phase, phase start and phase duration as they were.
C33_PhaseChangesWhenDue ==
    /\ [](last.ticks = 0 => last.phase = PhaseCalm)
    /\ [][last'.ticks = last.ticks + 1 =>
            IF last'.now - last.phaseStart >= last.phaseDuration
            THEN /\ last'.phase = (IF last'.intensity < 300 THEN PhaseCalm
                                   ELSE IF last'.intensity < 700 THEN PhaseActive
                                   ELSE PhaseBurst)
                 /\ last'.phaseStart = last'.now
                 /\ last'.phaseDuration \in PhaseSeconds(last'.phase)
            ELSE /\ last'.phase = last.phase
                 /\ last'.phaseStart = last.phaseStart
                 /\ last'.phaseDuration = last.phaseDuration]_vars

\* C33 witness: a Tick 30 s after the start ended a calm phase of 30 s at
\* intensity 0.3 and began an active phase, and a Tick 5 s later left it
\* running
C33_Witness ==
    /\ last.ticks = 2 /\ last.phase = PhaseActive
    /\ last.phaseStart = 30 /\ last.now = 35
    /\ last.phaseDuration \in 10..60

-----------------------------------------------------------------------------
(* Claims about the frames of the write loop                                *)

\* C34: every frame a client's writePump has written has the frame type of
\* its payload's encoding: a text frame for an item encoded as JSON, a binary
\* frame for an item encoded in binary, also when a format control message
\* was processed while items encoded in the format before were in the queue.
C34_FrameTypeMatchesPayload ==
    \A c \in ClientIds : \A i \in 1..Len(taken[c]) :
       taken[c][i].msgType =
          IF taken[c][i].Format = FormatBinary THEN BinaryMessage ELSE TextMessage

-----------------------------------------------------------------------------
(* Claims about a consumer of the message stream                            *)

\* the orders that rest on the price levels of book b, by id
OnLevels(b) ==
    LET resting == AllLevelOrders(b.Bids) \o AllLevelOrders(b.Asks)
        entry(id) == resting[CHOOSE i \in 1..Len(resting) : resting[i].ID = id]
    IN [id \in LevelIDs(b) |->
           [Side |-> entry(id).Side, Price |-> entry(id).Price, Shares |-> entry(id).Shares]]

\* C35: a consumer that replays a symbol's messages from Initialize on (A/F
\* add, D delete, U replace, E reduce and remove at 0) holds after every Step
\* exactly the ids, with side, price and remaining shares, of the orders that
\* rest on the simulator's price levels.
C35_ReplayEqualsLevels ==
    last.op \in {"Initialize", "Step"} =>
       /\ DOMAIN consumer = LevelIDs(book)
       /\ \A id \in LevelIDs(book) : consumer[id] = OnLevels(book)[id]

-----------------------------------------------------------------------------
(* persist.Snapshotter over one symbol: Save, run by the snapshotter task    *)
(* beside the symbol task, SaveTrade, and Load at the next start of the      *)
(* program.  store holds the collections of the database; tasks holds where  *)
(* main is, Save's locals, and what Load returned; market holds the engine's *)
(* prices.  A Save is one transaction: its writes are in the database when   *)
(* it commits.  An *Order that Save holds is the object the book holds: what *)
(* the symbol task writes to the order shows through Save's pointer.         *)

MaxPersistSteps == 2   \* Step calls of the symbol task in one behaviour

\* the bson document Save builds for an order, and the Order Load builds
\* from a document
orderDoc(o) ==
    [id |-> o.ID, symbol_locate |-> o.Locate, side |-> o.Side, price |-> o.Price,
     shares |-> o.Shares, priority |-> o.Priority, mpid |-> o.MPID]
docOrder(d) ==
    [ID |-> d.id, Locate |-> d.symbol_locate, Side |-> d.side, Price |-> d.price,
     Shares |-> d.shares, Priority |-> d.priority, MPID |-> d.mpid]

\* an empty database
EmptyStore == [symbols |-> <<>>, orders |-> <<>>, sim_state |-> <<>>, trades |-> <<>>]

\* no Save in progress
NoSave == [pc |-> "idle", prices |-> <<>>, orders |-> <<>>, docs |-> <<>>,
           seen |-> <<>>, n |-> 0]

\* GetOrderIDCounter that is one behind
GetOrderIDCounterBehind(counter) == counter - 1
\* GetOrderIDCounter, GetMatchCounter: atomic loads
GetOrderIDCounter(counter) == counter
GetMatchCounter(counter) == counter

\* Save, steps 1 and 2 up to the AllOrders call on the book
SaveBegin(sv, prices, b) ==
    With(AllOrders(b), LAMBDA orders :
        [sv EXCEPT !.pc = IF orders = <<>> THEN "state" ELSE "orders",
                   !.prices = prices, !.orders = orders, !.docs = <<>>,
                   !.seen = [id \in DOMAIN b.orderMap |-> {b.orderMap[id]}],
                   !.n = @ + 1])

\* Save's loop over the orders: the document of the next order, from the
\* fields the order has now
SaveOrder(sv) ==
    [sv EXCEPT !.docs = Append(@, orderDoc(Head(sv.orders))),
               !.orders = Tail(@),
               !.pc = IF Tail(sv.orders) = <<>> THEN "state" ELSE "orders"]

\* Save, InsertMany and steps 3 to 5, and the commit: the database after it
SaveCommit(sv, db, r, orderCounter, matchCount) ==
    [db EXCEPT !.symbols = sv.prices,
               !.orders = sv.docs,
               !.sim_state = [rng_state |-> StateBytes(r),
                              order_id_counter |-> GetOrderIDCounter(orderCounter),
                              match_counter |-> GetMatchCounter(matchCount)]]

\* the orders Save's pointers lead to after a Step that took book b to b1
\* and returned list: an order on the book is as the book has it, an order
\* ReduceOrder took off the book has 0 shares, an order removed otherwise is
\* as it was
Pointees(orders, b, b1, list) ==
    [i \in 1..Len(orders) |->
        IF orders[i].ID \in DOMAIN b1.orderMap THEN b1.orderMap[orders[i].ID]
        ELSE IF /\ orders[i].ID \in DOMAIN b.orderMap
                /\ \E k \in 1..Len(list) :
                      list[k].Type = "E" /\ list[k].OrderRef = orders[i].ID
        THEN [orders[i] EXCEPT !.Shares = 0]
        ELSE orders[i]]

\* the states the orders Save holds have had on the book since its AllOrders
Seen(seen, b1) ==
    [id \in DOMAIN seen |->
        IF id \in DOMAIN b1.orderMap THEN seen[id] \cup {b1.orderMap[id]} ELSE seen[id]]

\* SaveTrade: InsertOne under the unique index on match_number; a duplicate
\* key is taken for success and nothing is inserted
SaveTrade(db, rec) ==
    IF \E i \in 1..Len(db.trades) : db.trades[i].matchNumber = rec.matchNumber
    THEN db
    ELSE [db EXCEPT !.trades = Append(@, rec)]

RECURSIVE SaveTrades(_, _, _)
\* enqueueTrades and the tradeWriter tasks on the output of a Step
SaveTrades(db, locate, list) ==
    IF list = <<>> THEN db
    ELSE IF Head(list).Type = "P"
    THEN SaveTrades(SaveTrade(db, tradeRecord(locate, Head(list))), locate, Tail(list))
    ELSE SaveTrades(db, locate, Tail(list))

RECURSIVE restoreOrders(_, _)
\* Load's loop over the order documents: RestoreOrder of each, in order
restoreOrders(b, docs) ==
    IF docs = <<>> THEN b
    ELSE IF Len(docs) = 1 THEN RestoreOrder(b, docOrder(docs[1]))
    ELSE With(restoreOrders(b, SubSeq(docs, 1, Len(docs) \div 2)), LAMBDA half :
            restoreOrders(half, SubSeq(docs, Len(docs) \div 2 + 1, Len(docs))))

\* where a call of the database fails during Load: nowhere (0), in
\* CountDocuments (-1), in the Find on symbols (-2), or at the k-th order
\* document (k), which is the cursor's error when k is one past the last
LoadFaults == {0, -1, -2, 1, 3}

\* Snapshotter.Load on program state w = [price, book, rng, orderIDCounter,
\* matchCounter]: the state after the call, whether it returned true, and
\* whether it returned an error
Load(w, db, failAt) ==
    LET out(v, restored, err) ==
            [price |-> v.price, book |-> v.book, rng |-> v.rng,
             orderIDCounter |-> v.orderIDCounter, matchCounter |-> v.matchCounter,
             restored |-> restored, err |-> err]
        n  == Len(db.orders)
        w1 == [w EXCEPT !.price = db.symbols[Locate1]]
        w2 == With(restoreOrders(w.book, SubSeq(db.orders, 1,
                                     IF failAt \in 1..n THEN failAt - 1 ELSE n)),
                   LAMBDA b : [w1 EXCEPT !.book = b])
        w3 == [w2 EXCEPT !.rng = IF Len(db.sim_state.rng_state) >= 16
                                 THEN RestoreStateBytes(@, db.sim_state.rng_state) ELSE @,
                         !.orderIDCounter = db.sim_state.order_id_counter,
                         !.matchCounter = db.sim_state.match_counter]
    IN IF failAt = -1 THEN out(w, FALSE, TRUE)
       ELSE IF DOMAIN db.symbols = {} THEN out(w, FALSE, FALSE)
       ELSE IF failAt = -2 THEN out(w, FALSE, TRUE)
       ELSE IF failAt \in 1..(n + 1) THEN out(w2, FALSE, TRUE)
       ELSE out(w3, TRUE, FALSE)

\* The program has started on an empty database: Load found nothing, main
\* ran Initialize at the base price, and the engine has ticked since.
PersistInit ==
    /\ \E w \in {SeededWorld} : InWorld(w)
    /\ last = NoOp /\ steps = 0
    /\ DetAtRest /\ SessAtRest /\ TradeAtRest /\ CtrAtRest
    /\ pumps = <<>> /\ ctx = FALSE /\ ConsumerAtRest
    /\ market = [prices |-> (Locate1 :> RefPrice + TickSize)]
    /\ store = EmptyStore
    /\ tasks = [main |-> "running", life |-> 1, snap |-> NoSave,
                restored |-> FALSE, err |-> FALSE, before |-> {}]

PersistRest == <<run2, sessVars, tradeVars, ctrVars, pumps, ctx, consumer>>

\* the symbol task: msgs := sim.Step(price, 1), enqueueTrades(msgs), and the
\* tradeWriters' SaveTrade of its trades (the draws are scripted)
PersistStep(tape) ==
    /\ tasks.main = "running"
    /\ steps < MaxPersistSteps /\ steps' = steps + 1
    /\ \E w \in {Step([World EXCEPT !.rng = Scripted(tape)], market.prices[Locate1], 1)} :
       /\ BecomeWorld([w EXCEPT !.rng = rng])
       /\ store' = SaveTrades(store, Locate1, w.msgs)
       /\ tasks' = [tasks EXCEPT !.snap.orders = Pointees(@, book, w.book, w.msgs),
                                 !.snap.seen = Seen(@, w.book)]
    /\ last' = [op |-> "Step", id |-> 0, arg |-> 1, result |-> 0]
    /\ UNCHANGED <<market, PersistRest>>

\* the snapshotter task's ticker fires: Save begins
PersistSaveBegin ==
    /\ tasks.main = "running" /\ tasks.life = 1
    /\ tasks.snap.pc = "idle" /\ tasks.snap.n = 0
    /\ tasks' = [tasks EXCEPT !.snap = SaveBegin(@, market.prices, book)]
    /\ UNCHANGED <<simVars, store, market, PersistRest>>

\* Save reads the fields of the next order
PersistSaveOrder ==
    /\ tasks.main = "running" /\ tasks.snap.pc = "orders"
    /\ tasks' = [tasks EXCEPT !.snap = SaveOrder(@)]
    /\ UNCHANGED <<simVars, store, market, PersistRest>>

\* Save reads the generator and the counters, and its transaction commits
PersistSaveCommit ==
    /\ tasks.main = "running" /\ tasks.snap.pc = "state"
    /\ store' = SaveCommit(tasks.snap, store, rng, orderIDCounter, matchCounter)
    /\ tasks' = [tasks EXCEPT !.snap.pc = "idle"]
    /\ UNCHANGED <<simVars, market, PersistRest>>

\* the process ends (a signal, a crash) and the program is started again:
\* main builds the generator, the engine and the books anew; the database
\* is as the committed transactions left it
Restart ==
    /\ tasks.main = "running" /\ tasks.life = 1
    /\ BecomeWorld(FreshWorld)
    /\ market' = [prices |-> (Locate1 :> RefPrice)]
    /\ tasks' = [main |-> "boot", life |-> 2, snap |-> [NoSave EXCEPT !.n = tasks.snap.n],
                 restored |-> FALSE, err |-> FALSE,
                 before |-> {store.trades[i].matchNumber : i \in 1..Len(store.trades)}]
    /\ last' = [op |-> "restart", id |-> 0, arg |-> 0, result |-> 0]
    /\ UNCHANGED <<steps, store, PersistRest>>

\* main: restored, err := snapshotter.Load(ctx)
LoadCall(failAt) ==
    /\ tasks.main = "boot"
    /\ \E r \in {Load([price |-> market.prices[Locate1], book |-> book, rng |-> rng,
                       orderIDCounter |-> orderIDCounter, matchCounter |-> matchCounter],
                      store, failAt)} :
       /\ book' = r.book /\ rng' = r.rng
       /\ orderIDCounter' = r.orderIDCounter /\ matchCounter' = r.matchCounter
       /\ market' = [prices |-> (Locate1 :> r.price)]
       /\ tasks' = [tasks EXCEPT !.main = "loaded", !.restored = r.restored, !.err = r.err]
    /\ last' = [op |-> "Load", id |-> 0, arg |-> failAt, result |-> 0]
    /\ UNCHANGED <<msgs, audit, steps, store, PersistRest>>

\* main: if !restored, sim.Initialize(s.BasePrice); then the tasks start
InitializeBooks ==
    /\ tasks.main = "loaded"
    /\ IF tasks.restored THEN UNCHANGED <<rng, book, orderIDCounter, matchCounter, msgs, audit>>
       ELSE \E w \in {Initialize(World, RefPrice)} : BecomeWorld(w)
    /\ tasks' = [tasks EXCEPT !.main = "running"]
    /\ last' = [op |-> IF tasks.restored THEN "restored" ELSE "Initialize",
                id |-> 0, arg |-> RefPrice, result |-> 0]
    /\ UNCHANGED <<steps, store, market, PersistRest>>

\* scripts of the symbol task's Step: a trade, or an add
PersistTapes == TradeTapes \cup {<<PickAdd, Low, U32(0, 0), U32(0, 1), High>>}

PersistNext ==
    \/ \E tape \in PersistTapes : PersistStep(tape)
    \/ PersistSaveBegin
    \/ PersistSaveOrder
    \/ PersistSaveCommit
    \/ Restart
    \/ \E failAt \in LoadFaults : LoadCall(failAt)
    \/ InitializeBooks

SpecPersist == PersistInit /\ [][PersistNext]_vars

-----------------------------------------------------------------------------
(* Claims about snapshots                                                    *)

C37_MatchNumbersAboveSavedTrades ==
    (tasks.life = 2 /\ tasks.restored) =>
       \A n \in tasks.before : n < NextMatchNumber(matchCounter)

\* C38: every order document Save has built has shares above 0 and is the
\* document of a state its order had on the book at some instant since
\* Save's AllOrders call.
C38_SavedOrdersWereOnBook ==
    \A i \in 1..Len(tasks.snap.docs) :
       LET d == tasks.snap.docs[i]
       IN /\ d.shares > 0
          /\ \E o \in tasks.snap.seen[d.id] : d = orderDoc(o)

\* C39: a Load that returns an error has changed nothing: the engine's
\* price, the book, the counters and the generator are as before the call;
\* the Initialize main then runs starts from an empty book, and afterwards
\* no two orders on the book's levels have the same id.
C39_FailedLoadRestoresNothing ==
    /\ [][(tasks.main = "boot" /\ tasks'.main = "loaded" /\ tasks'.err) =>
             /\ book' = book /\ market' = market /\ rng' = rng
             /\ orderIDCounter' = orderIDCounter /\ matchCounter' = matchCounter]_vars
    /\ []((tasks.life = 2 /\ tasks.err /\ tasks.main = "running") =>
             Cardinality(LevelIDs(book)) = TotalBidOrders(book) + TotalAskOrders(book))

-----------------------------------------------------------------------------
(* The two tradeWriter tasks on the trade channel, one record at a time:     *)
(* tasks gives, per writer, where it is and the record tr it has received;   *)
(* saved holds the SaveTrade calls, each with the writer that made it.       *)

MaxMatch == 4        \* match numbers MaxBatches batches can use

\* a tradeWriter that forgets the record it received
tradeWriterDrops(w) ==
    /\ \/ /\ tasks[w].pc = "select" /\ CtxDone(ctx)
          /\ tasks' = [tasks EXCEPT ![w].pc = "returned"]
          /\ UNCHANGED <<tradeCh, saved>>
       \/ /\ tasks[w].pc = "select" /\ tradeCh # <<>>
          /\ tasks' = [tasks EXCEPT ![w] = [pc |-> "save", tr |-> Recv(tradeCh).data]]
          /\ tradeCh' = Recv(tradeCh).ch
          /\ UNCHANGED saved
       \/ /\ tasks[w].pc = "save"
          /\ tasks' = [tasks EXCEPT ![w] = [pc |-> "select", tr |-> <<>>]]
          /\ UNCHANGED <<tradeCh, saved>>
    /\ UNCHANGED <<simVars, run2, sessVars, enq, ctrVars, pumps, ctx, store, market, consumer>>

\* tradeWriter: the select takes <-ctx.Done() and returns, or takes a record
\* of the channel (tr := <-ch); then it calls snap.SaveTrade with tr
tradeWriter(w) ==
    /\ \/ /\ tasks[w].pc = "select" /\ CtxDone(ctx)
          /\ tasks' = [tasks EXCEPT ![w].pc = "returned"]
          /\ UNCHANGED <<tradeCh, saved>>
       \/ /\ tasks[w].pc = "select" /\ tradeCh # <<>>
          /\ tasks' = [tasks EXCEPT ![w] = [pc |-> "save", tr |-> Recv(tradeCh).data]]
          /\ tradeCh' = Recv(tradeCh).ch
          /\ UNCHANGED saved
       \/ /\ tasks[w].pc = "save"
          /\ saved' = Append(saved, [tr |-> tasks[w].tr, by |-> w])
          /\ tasks' = [tasks EXCEPT ![w] = [pc |-> "select", tr |-> <<>>]]
          /\ UNCHANGED tradeCh
    /\ UNCHANGED <<simVars, run2, sessVars, enq, ctrVars, pumps, ctx, store, market, consumer>>

\* the signal goroutine calls cancel()
WritersCancel ==
    /\ ~ctx /\ ctx' = TRUE
    /\ UNCHANGED <<simVars, run2, sessVars, tradeVars, ctrVars, pumps, tasks, store,
                   market, consumer>>

\* main has made the channel and started the two writers
WritersInit ==
    /\ rng = <<>> /\ book = <<>> /\ msgs = <<>> /\ audit = <<>> /\ last = <<>>
    /\ orderIDCounter = 0 /\ matchCounter = 0 /\ steps = 0
    /\ tradeCh = <<>> /\ saved = <<>>
    /\ enq = [l \in Locates |-> [pc |-> "idle", batch |-> <<>>, i |-> 1, outcome |-> <<>>]]
    /\ DetAtRest /\ SessAtRest /\ CtrAtRest
    /\ pumps = <<>> /\ MktAtRest /\ ConsumerAtRest
    /\ ctx = FALSE /\ store = <<>>
    /\ tasks = [w \in Writers |-> [pc |-> "select", tr |-> <<>>]]

\* one symbol task feeds the channel
WritersNext ==
    \/ \E batch \in BatchInputs(Locate1, matchCounter) : EnqueueCall(Locate1, batch)
    \/ EnqueueVisit(Locate1)
    \/ \E w \in Writers : tradeWriter(w)
    \/ WritersCancel

\* The writers are scheduled fairly: a writer that can take a step takes one.
SpecWriters ==
    /\ WritersInit /\ [][WritersNext]_vars
    /\ \A w \in Writers : WF_vars(tradeWriter(w))

\* the record with match number n is on the channel; the writers that hold
\* it; the SaveTrade calls made with it
OnChannel(n) == \E i \in 1..Len(tradeCh) : tradeCh[i].matchNumber = n
HeldBy(n)    == {w \in Writers : tasks[w].pc = "save" /\ tasks[w].tr.matchNumber = n}
SaveCalls(n) == {i \in 1..Len(saved) : saved[i].tr.matchNumber = n}

\* C40: a trade record that was accepted onto the trade channel is never
\* passed to SaveTrade twice or by two writers (it is on the channel, or with
\* one writer, or in one SaveTrade call, and never in two of these places),
\* and, with the writers scheduled fairly, a record on the channel is in
\* the end passed to SaveTrade unless cancel() has been called.
C40_EachTradeSavedOnce ==
    /\ [](\A n \in 1..MaxMatch :
            /\ Cardinality(SaveCalls(n)) <= 1
            /\ Cardinality(HeldBy(n)) <= 1
            /\ ~(OnChannel(n) /\ (HeldBy(n) # {} \/ SaveCalls(n) # {}))
            /\ ~(HeldBy(n) # {} /\ SaveCalls(n) # {})
            /\ \A i \in SaveCalls(n) : saved[i].by \in Writers)
    /\ \A n \in 1..MaxMatch : OnChannel(n) ~> (SaveCalls(n) # {} \/ ctx)

\* C40 witness: both writers have made SaveTrade calls, each record once, no
\* cancel() has been called, and the channel is empty again
C40_Witness ==
    /\ ~ctx /\ tradeCh = <<>> /\ Len(saved) = 3
    /\ \E i, j \in 1..Len(saved) : saved[i].by = "w1" /\ saved[j].by = "w2"
    /\ \A n \in 1..3 : Cardinality(SaveCalls(n)) = 1

=============================================================================
